---- MODULE Spec2Model ----
(***************************************************************************)
(* OxideDB: a model of the B+ tree index (src/src/BPlusTree.rs, the i32    *)
(* instance of src/src/UniversalBPlusTree.rs), its checkpoint file          *)
(* (src/src/BTreePersistence.rs), the slotted page (src/src/RowData.rs),    *)
(* the data file (src/src/FileWriter.rs), the query facade                  *)
(* (src/src/TableQueryHandler.rs) and the LRU page cache                    *)
(* (src/src/LruDict.rs).                                                    *)
(*                                                                         *)
(* Positions are 0-based as in the Rust source; a TLA+ sequence s holds    *)
(* the Rust element s[i] at s[i+1].  A node reference (Rc / Arc) is the    *)
(* index of the node in the arena `nodes`; 0 is None.                      *)
(***************************************************************************)
EXTENDS Integers, Sequences, FiniteSets, TLC

\* ------------------------------------------------------------------------
\* Program constants
\* ------------------------------------------------------------------------
MAX_KEYS == 3

\* ------------------------------------------------------------------------
\* Bounds of the model
\* ------------------------------------------------------------------------
\* number of insert calls in one behaviour of Spec
MaxInserts == 5
\* largest key of an ascending load (SpecBulk)
MaxBulkKey == 12
\* facade insert calls that reach the page in one behaviour
MaxFacadeInserts == 3
\* the largest capacity a cache is made with
MaxCapacity == 2
\* the largest page_id a page is written at in SpecGrow
MaxPageId == 2
\* largest key of the loads in any order (SpecSplit)
MaxSplitKey == 10
\* calls on the tree manager in one behaviour of SpecManager
MaxManagerCalls == 4
\* the size and the header size of the page of SpecPage, and the appends to it
PageBytes == 40
PageHeader == 4
MaxAppends == 4
BigLen == 2040
\* the tables one behaviour of SpecCatalog creates
MaxTables == 2

\* keys offered to insert and search in Spec
Keys == {0, 1, 2, 3}
\* keys offered to insert and search in SpecBulk
BulkKeys == 1..MaxBulkKey
AllKeys == Keys \cup BulkKeys

\* locators (page_id, offset) offered to insert
Locs == {<<0, 0>>, <<0, 1>>}

\* Option<locator>::None, and the value of `result` before any search call
NoLoc == <<>>
NoResult == [called |-> FALSE, key |-> 0, hit |-> FALSE, loc |-> NoLoc]

VARIABLES
    nodes,      \* arena of B+ tree nodes: Seq of Node
    root,       \* BPlusTree.root: 0 (None) or an index of nodes
    fault,      \* TRUE once a call has panicked (index out of bounds)
    result,     \* outcome of the last search call, NoResult before any
    last,       \* history: key -> locator of the last insert(key, _), or NoLoc
    dup,        \* history: TRUE once a key already inserted was inserted again
    ninserts,   \* history: number of insert calls so far
    idxFile,    \* the file <table>_btree.idx: [exists, bytes]
    phase,      \* "run", then "saved" after save_btree, "loaded" after load_btree
    saved,      \* history: key -> what search returned when save_btree ran
    catalog,    \* meta_config: table name -> column types
    table_indexes,    \* TableQueryHandler: the tables that have a tree (the
                      \* tree of "users" is <<nodes, root>>)
    table_page_info,  \* TableQueryHandler: table name -> (page_id, row_count)
    datFile,    \* the file users.dat: [exists, bytes]
    fres,       \* what the last facade call returned
    lastRow,    \* history: key -> the row of its last successful facade insert
    lru,        \* the LRUDict: [made, capacity, dict, lnodes, head, tail]
    recency,    \* history: the cached keys, the one put or hit longest ago first
    lres,       \* what the last cache call returned and did
    putPage,    \* history: key -> the page last put under it, "" once evicted
    page,       \* a slotted page in memory (RawData)
    pageFile,   \* the data file the page is written to: [exists, bytes]
    readBack,   \* the page read back from the file: [present, raw], and
                \* history: the rows the file held then
    appended,   \* history: the rows appended to the page, in order
    allFit,     \* history: every append so far met the precondition of append
    storedRows, \* history: the rows the page held when it was last written
    meta_config,  \* the TableMetaHandler of the process: [table_id, table_id_meta]
    metaFile,   \* the file meta_config.db: [exists, bytes]
    handler,    \* the TableCreationHandler: its two trees
    colFile,    \* the file of the handler: [exists, bytes]
    cres,       \* what the last catalog call was and returned
    created,    \* history: the ids returned by create-table, in order
    thr,        \* the threads that call create-table: thread -> its call, its
                \* position in it, its handler and what it returned
    walk,       \* the threads that descend the tree: thread -> its call, the
                \* node it is at, the node it came from, the locks it holds
    mgr,        \* BTREE_MANAGER: who holds its mutex, who is writing, and the
                \* tree of each table id
    calls,      \* the threads that call the tree manager: thread -> its call
    serial,     \* history: the trees and results of the calls run one after
                \* another in the order they took the mutex
    schemaFile, \* the file schema/table_meta: [exists, bytes]
    boot,       \* history: how often load_table_schema_meta ran, and whether
                \* its last run found no file
    lastWrite   \* history: the last write_to_file call and the file before it

treeVars == <<nodes, root, fault, result, last, dup, ninserts>>
persistVars == <<idxFile, phase, saved>>
facadeVars == <<catalog, table_indexes, table_page_info, datFile, fres, lastRow>>
lruVars == <<lru, recency, lres, putPage>>
pageVars == <<page, pageFile, readBack, appended, allFit, storedRows>>
\* the variables of the specifications that follow SpecCatalog
mgrVars == <<mgr, calls, serial>>
bootVars == <<schemaFile, boot>>
extVars == <<thr, walk, lastWrite, mgrVars, bootVars>>
catVars == <<meta_config, metaFile, handler, colFile, cres, created, extVars>>

vars == <<nodes, root, fault, result, last, dup, ninserts, idxFile, phase, saved,
          catalog, table_indexes, table_page_info, datFile, fres, lastRow,
          lru, recency, lres, putPage,
          page, pageFile, readBack, appended, allFit, storedRows,
          meta_config, metaFile, handler, colFile, cres, created, extVars>>

\* ------------------------------------------------------------------------
\* B+ tree (BPlusTree.rs)
\* ------------------------------------------------------------------------

\* struct data { page_id, offset }
data(loc) == [page_id |-> loc[1], offset |-> loc[2]]

\* struct Key { key, data }
Key(k, loc) == [key |-> k, data |-> data(loc)]

\* vec![None; MAX_KEYS + 1]
NonePointers == [i \in 1..(MAX_KEYS + 1) |-> 0]

\* Node { keys: Vec::new(), count: 0, size, pointers: vec![None; 4], next: None, is_leaf }
NewNode(isLeaf) ==
    [keys |-> <<>>, count |-> 0, pointers |-> NonePointers, next |-> 0,
     is_leaf |-> isLeaf]

\* Vec::insert(pos, x) for pos <= len
VecInsert(s, pos, x) ==
    SubSeq(s, 1, pos) \o <<x>> \o SubSeq(s, pos + 1, Len(s))

\* Vec::resize(n, None)
VecResize(s, n) ==
    IF Len(s) >= n THEN SubSeq(s, 1, n)
    ELSE s \o [i \in 1..(n - Len(s)) |-> 0]

\* the loop of _binary_search; keys[mid] with mid >= keys.len() panics
RECURSIVE BSearchLoop(_, _, _, _)
BSearchLoop(node, target, low, high) ==
    IF low < high
    THEN LET mid == (low + high) \div 2 IN
         IF mid >= Len(node.keys) THEN [fault |-> TRUE, pos |-> mid]
         ELSE IF node.keys[mid + 1].key = target THEN [fault |-> FALSE, pos |-> mid]
         ELSE IF node.keys[mid + 1].key < target
              THEN BSearchLoop(node, target, mid + 1, high)
              ELSE BSearchLoop(node, target, low, mid)
    ELSE [fault |-> FALSE, pos |-> low]

\* high starts at node.count, not at keys.len()
binary_search(node, target) == BSearchLoop(node, target, 0, node.count)

\* the one element of a singleton set.  The({e(x) : x \in {v}}) is e(v)
\* with v computed once.
The(S) == CHOOSE x \in S : TRUE

\* outcomes of the steps of an insert
Panic(ns) == [nodes |-> ns, fault |-> TRUE, split |-> FALSE]
NoSplit(ns) == [nodes |-> ns, fault |-> FALSE, split |-> FALSE]
Promote(ns, k, l, r) ==
    [nodes |-> ns, fault |-> FALSE, split |-> TRUE, key |-> k, left |-> l, right |-> r]

\* keys.insert(pos, value); count += 1  (no test for an equal key at pos)
add_new_element(ns, cur, value) ==
    The({ IF b.fault \/ b.pos > Len(ns[cur].keys) THEN Panic(ns)
          ELSE NoSplit([ns EXCEPT ![cur].keys = VecInsert(@, b.pos, value),
                                  ![cur].count = @ + 1])
          : b \in {binary_search(ns[cur], value.key)} })

\* a split_leaf that leaves the next of the old leaf as it was
split_leaf_unlinked(ns, cur) ==
    LET node == ns[cur]
        total == Len(node.keys)
        mid == (total + 1) \div 2
        right_keys == SubSeq(node.keys, mid + 1, total)
        left_keys == SubSeq(node.keys, 1, mid)
        right_rc == Len(ns) + 1
        right_node == [keys |-> right_keys, count |-> Len(right_keys),
                       pointers |-> NonePointers, next |-> node.next,
                       is_leaf |-> TRUE]
        left == [node EXCEPT !.keys = left_keys, !.count = Len(left_keys)]
    IN  IF Len(right_keys) = 0 THEN Panic(ns)
        ELSE Promote(Append([ns EXCEPT ![cur] = left], right_node),
                     right_keys[1], cur, right_rc)

split_leaf(ns, cur) ==
    LET node == ns[cur]
        total == Len(node.keys)
        mid == (total + 1) \div 2
        right_keys == SubSeq(node.keys, mid + 1, total)
        left_keys == SubSeq(node.keys, 1, mid)
        right_rc == Len(ns) + 1
        right_node == [keys |-> right_keys, count |-> Len(right_keys),
                       pointers |-> NonePointers, next |-> node.next,
                       is_leaf |-> TRUE]
        left == [node EXCEPT !.keys = left_keys, !.count = Len(left_keys),
                             !.next = right_rc]
    IN  IF Len(right_keys) = 0 THEN Panic(ns)
        ELSE Promote(Append([ns EXCEPT ![cur] = left], right_node),
                     right_keys[1], cur, right_rc)

\* the pointer vector of insert_into_internal after the key went in at pos
InternalPointers(pointers, nkeys, pos, left, right) ==
    LET ptrs1 == IF Len(pointers) < nkeys + 1
                 THEN VecResize(pointers, nkeys + 1)
                 ELSE pointers
        ptrs2 == VecInsert(ptrs1, pos + 1, right)
        ptrs3 == [ptrs2 EXCEPT ![pos + 1] = left]
    IN  IF Len(ptrs3) > MAX_KEYS + 1
        THEN SubSeq(ptrs3, 1, Len(ptrs3) - 1)
        ELSE ptrs3

insert_into_internal(ns, cur, promoted_key, left, right) ==
    The({ IF b.fault \/ b.pos > Len(ns[cur].keys) \/ b.pos + 1 > Len(ns[cur].pointers)
          THEN Panic(ns)
          ELSE NoSplit([ns EXCEPT
                   ![cur].keys = VecInsert(@, b.pos, promoted_key),
                   ![cur].count = @ + 1,
                   ![cur].pointers = InternalPointers(@, Len(ns[cur].keys) + 1,
                                                      b.pos, left, right)])
          : b \in {binary_search(ns[cur], promoted_key.key)} })

\* number of Some entries of a pointer vector
CountSome(ptrs) == Cardinality({i \in 1..Len(ptrs) : ptrs[i] # 0})

\* a split_internal whose right node keeps the promoted key
split_internal_keeps_mid(ns, cur) ==
    LET node == ns[cur]
        total == Len(node.keys)
        mid_index == total \div 2
        left_keys == SubSeq(node.keys, 1, mid_index)
        right_keys == SubSeq(node.keys, mid_index + 1, total)
        all_ptrs == IF Len(node.pointers) < total + 1
                    THEN VecResize(node.pointers, total + 1)
                    ELSE node.pointers
        left_ptrs == SubSeq(all_ptrs, 1, mid_index + 1)
        right_ptrs == SubSeq(all_ptrs, mid_index + 2, Len(all_ptrs))
        left_node == [keys |-> left_keys,
                      count |-> CountSome(left_ptrs),
                      pointers |-> VecResize(left_ptrs, MAX_KEYS + 1),
                      next |-> 0, is_leaf |-> FALSE]
        right_node == [keys |-> right_keys,
                       count |-> Len(node.keys) - (mid_index + 1),
                       pointers |-> VecResize(right_ptrs, MAX_KEYS + 1),
                       next |-> 0, is_leaf |-> FALSE]
        left_rc == Len(ns) + 1
        right_rc == Len(ns) + 2
    IN  IF mid_index >= total THEN Panic(ns)
        ELSE Promote(ns \o <<left_node, right_node>>,
                     node.keys[mid_index + 1], left_rc, right_rc)

split_internal(ns, cur) ==
    LET node == ns[cur]
        total == Len(node.keys)
        mid_index == total \div 2
        left_keys == SubSeq(node.keys, 1, mid_index)
        right_keys == SubSeq(node.keys, mid_index + 2, total)
        all_ptrs == IF Len(node.pointers) < total + 1
                    THEN VecResize(node.pointers, total + 1)
                    ELSE node.pointers
        left_ptrs == SubSeq(all_ptrs, 1, mid_index + 1)
        right_ptrs == SubSeq(all_ptrs, mid_index + 2, Len(all_ptrs))
        left_node == [keys |-> left_keys,
                      count |-> CountSome(left_ptrs),
                      pointers |-> VecResize(left_ptrs, MAX_KEYS + 1),
                      next |-> 0, is_leaf |-> FALSE]
        right_node == [keys |-> right_keys,
                       count |-> Len(node.keys) - (mid_index + 1),
                       pointers |-> VecResize(right_ptrs, MAX_KEYS + 1),
                       next |-> 0, is_leaf |-> FALSE]
        left_rc == Len(ns) + 1
        right_rc == Len(ns) + 2
    IN  IF mid_index >= total THEN Panic(ns)
        ELSE Promote(ns \o <<left_node, right_node>>,
                     node.keys[mid_index + 1], left_rc, right_rc)

\* what follows the recursive call in an internal node: r is its outcome
AfterChild(r, cur) ==
    IF r.fault THEN r
    ELSE IF r.split
    THEN The({ IF i.fault THEN i
               ELSE IF i.nodes[cur].count > MAX_KEYS
                    THEN split_internal(i.nodes, cur)
                    ELSE i
               : i \in {insert_into_internal(r.nodes, cur, r.key, r.left, r.right)} })
    ELSE NoSplit(r.nodes)

\* the leaf case of _insert_rec
InsertLeaf(ns, cur, value) ==
    The({ IF a.fault THEN a
          ELSE IF a.nodes[cur].count > MAX_KEYS
               THEN split_leaf(a.nodes, cur)
               ELSE a
          : a \in {add_new_element(ns, cur, value)} })

\* _insert_rec; ns, cur and value are values
RECURSIVE insert_rec(_, _, _)
insert_rec(ns, cur, value) ==
    IF ns[cur].is_leaf
    THEN InsertLeaf(ns, cur, value)
    ELSE The({
           IF b.fault \/ b.pos >= Len(ns[cur].pointers) THEN Panic(ns)
           ELSE IF ns[cur].pointers[b.pos + 1] = 0
           THEN \* child_opt.is_none(): a new empty leaf becomes the child
                The({ AfterChild(r, cur)
                      : r \in { insert_rec(ns1, Len(ns) + 1, value)
                                : ns1 \in {Append([ns EXCEPT ![cur].pointers[b.pos + 1] =
                                                        Len(ns) + 1],
                                                  NewNode(TRUE))} } })
           ELSE The({ AfterChild(r, cur)
                      : r \in { insert_rec(ns, child, value)
                                : child \in {ns[cur].pointers[b.pos + 1]} } })
           : b \in {binary_search(ns[cur], value.key)} })

\* the end of BPlusTree::insert: r is the outcome of _insert_rec on the root rt0
InsertRoot(ns, rt, rt0, r) ==
    IF r.fault THEN [nodes |-> ns, root |-> rt, fault |-> TRUE]
    ELSE IF r.split
    THEN LET new_root == [keys |-> <<r.key>>, count |-> 1,
                          pointers |-> [NonePointers EXCEPT ![1] = r.left,
                                                            ![2] = r.right],
                          next |-> 0, is_leaf |-> FALSE]
         IN  [nodes |-> Append(r.nodes, new_root),
              root |-> Len(r.nodes) + 1, fault |-> FALSE]
    ELSE [nodes |-> r.nodes, root |-> rt0, fault |-> FALSE]

\* BPlusTree::insert on the tree (ns, rt): [nodes, root, fault].  A call that
\* panics ends the process; the tree it leaves is the one before the call.
insert(ns, rt, value) ==
    IF rt = 0
    THEN The({ InsertRoot(ns, rt, Len(ns) + 1, r)
               : r \in {insert_rec(Append(ns, NewNode(TRUE)), Len(ns) + 1, value)} })
    ELSE The({ InsertRoot(ns, rt, rt, r) : r \in {insert_rec(ns, rt, value)} })

Miss == [fault |-> FALSE, hit |-> FALSE]
Hit(d) == [fault |-> FALSE, hit |-> TRUE, data |-> d]
SearchPanic == [fault |-> TRUE, hit |-> FALSE]

\* search_rec; ns, cur and key are values
RECURSIVE search_rec(_, _, _)
search_rec(ns, cur, key) ==
    The({ IF b.fault THEN SearchPanic
          ELSE IF ns[cur].is_leaf
          THEN IF b.pos < Len(ns[cur].keys) /\ ns[cur].keys[b.pos + 1].key = key
               THEN Hit(ns[cur].keys[b.pos + 1].data)
               ELSE Miss
          ELSE IF b.pos < Len(ns[cur].pointers)
               THEN IF ns[cur].pointers[b.pos + 1] # 0
                    THEN The({ search_rec(ns, child, key)
                               : child \in {ns[cur].pointers[b.pos + 1]} })
                    ELSE Miss
               ELSE Miss
          : b \in {binary_search(ns[cur], key)} })

\* BPlusTree::search
search(ns, rt, key) == IF rt = 0 THEN Miss ELSE search_rec(ns, rt, key)

\* the locator (page_id, offset) of a data record
LocOf(d) == <<d.page_id, d.offset>>

\* what the caller of search(k) sees of the outcome r
Returned(k, r) ==
    [called |-> TRUE, key |-> k, hit |-> r.hit,
     loc |-> IF r.hit THEN LocOf(r.data) ELSE NoLoc]

\* ------------------------------------------------------------------------
\* Checkpoint file (BTreePersistence.rs)
\* ------------------------------------------------------------------------

\* i32::to_le_bytes: two's complement, least significant byte first
\* (\div rounds down and % is non-negative, also for n < 0)
LE32(n) == <<n % 256, (n \div 256) % 256, (n \div 65536) % 256,
             (n \div 16777216) % 256>>

\* i64::to_le_bytes for -2^31 <= n < 2^31: the upper four bytes extend the sign
LE64(n) == LE32(n) \o (IF n < 0 THEN <<255, 255, 255, 255>> ELSE <<0, 0, 0, 0>>)

\* i32::from_le_bytes
FromLE32(b) ==
    b[1] + 256 * b[2] + 65536 * b[3] +
    16777216 * (IF b[4] >= 128 THEN b[4] - 256 ELSE b[4])

\* i64::from_le_bytes of eight bytes written by LE64
FromLE64(b) == FromLE32(SubSeq(b, 1, 4))

\* SerializedBTreeEntry::to_bytes
to_bytes(e) == LE32(e.key) \o LE64(e.page_id) \o LE32(e.offset)

\* SerializedBTreeEntry::from_bytes of a 16-byte slice
from_bytes(b) ==
    [key |-> FromLE32(SubSeq(b, 1, 4)),
     page_id |-> FromLE64(SubSeq(b, 5, 12)),
     offset |-> FromLE32(SubSeq(b, 13, 16))]

\* the two probe loops: for key in 1..10000, then for key in -1000..0
PROBE_POS_END == 10000
PROBE_NEG_START == 1000
PositiveProbes == 1..(PROBE_POS_END - 1)
NegativeProbes == (0 - PROBE_NEG_START)..(0 - 1)

\* every key stored in some node of the arena
ArenaKeys(ns) == UNION {{ns[i].keys[j].key : j \in 1..Len(ns[i].keys)} : i \in 1..Len(ns)}

\* One probe for every way a key of the two loops can compare with the keys
\* of the tree: the stored keys, their neighbours and the ends of the loops.
\* Any other key of the loops compares with every stored key as one of these
\* does and is stored nowhere, so search treats it alike and misses.
Probes(ns) ==
    LET ks == ArenaKeys(ns) IN
    (ks \cup {k + 1 : k \in ks} \cup {k - 1 : k \in ks} \cup
     {1, PROBE_POS_END - 1, 0 - PROBE_NEG_START, 0 - 1})
    \cap (PositiveProbes \cup NegativeProbes)

\* a set of integers as an ascending sequence
RECURSIVE SortAsc(_)
SortAsc(S) ==
    IF S = {} THEN <<>>
    ELSE LET m == CHOOSE x \in S : \A y \in S : x <= y
         IN  <<m>> \o SortAsc(S \ {m})

\* the entries pushed by one probe loop over the keys ps, in loop order
RECURSIVE ProbeLoop(_, _, _)
ProbeLoop(ns, rt, ps) ==
    IF ps = <<>> THEN <<>>
    ELSE The({ (IF r.hit
                THEN <<[key |-> Head(ps), page_id |-> r.data.page_id,
                        offset |-> r.data.offset]>>
                ELSE <<>>) \o ProbeLoop(ns, rt, Tail(ps))
               : r \in {search(ns, rt, Head(ps))} })

\* collect_btree_entries_brute_force: [fault, entries]
collect_btree_entries_brute_force(ns, rt) ==
    LET ps == Probes(ns) IN
    IF \E p \in ps : search(ns, rt, p).fault
    THEN [fault |-> TRUE, entries |-> <<>>]
    ELSE [fault |-> FALSE,
          entries |-> ProbeLoop(ns, rt, SortAsc(ps \cap PositiveProbes)) \o
                      ProbeLoop(ns, rt, SortAsc(ps \cap NegativeProbes))]

RECURSIVE ConcatBytes(_)
ConcatBytes(es) ==
    IF es = <<>> THEN <<>> ELSE to_bytes(Head(es)) \o ConcatBytes(Tail(es))

NoFile == [exists |-> FALSE, bytes |-> <<>>]

\* the bytes save_btree writes: the entry count, then the entries
IndexFileOf(entries) ==
    [exists |-> TRUE, bytes |-> LE32(Len(entries)) \o ConcatBytes(entries)]

EmptyTree == [nodes |-> <<>>, root |-> 0, fault |-> FALSE]

\* the loop of load_btree: n entries left to read, offset off, tree t so far
RECURSIVE LoadLoop(_, _, _, _)
LoadLoop(buffer, n, off, t) ==
    IF n <= 0 \/ off + 16 > Len(buffer) \/ t.fault THEN t
    ELSE The({ LoadLoop(buffer, n - 1, off + 16, t2)
               : t2 \in { insert(t.nodes, t.root,
                                 [key |-> e.key,
                                  data |-> [page_id |-> e.page_id, offset |-> e.offset]])
                          : e \in {from_bytes(SubSeq(buffer, off + 1, off + 16))} } })

\* load_btree: Ok(tree) in every case that does not panic
load_btree(f) ==
    IF ~f.exists THEN EmptyTree
    ELSE IF Len(f.bytes) < 4 THEN EmptyTree
    ELSE LoadLoop(f.bytes, FromLE32(SubSeq(f.bytes, 1, 4)), 4, EmptyTree)

\* ------------------------------------------------------------------------
\* Rows and slotted pages (MetaEnum.rs, RowData.rs, FileWriter.rs)
\* ------------------------------------------------------------------------
PAGE_SIZE == 4096
HEADER_SIZE == 64
READ_HEADER_SIZE == 0
OFFSET_SIZE == 4

Tables == {"users", "ghost"}

\* MetaEnum::INTEGER and MetaEnum::STRING(n); the float and 64-bit column
\* types are left out
MetaINTEGER == [type |-> "INTEGER", size |-> 4]
MetaSTRING(n) == [type |-> "STRING", size |-> n]
UsersMeta == <<MetaINTEGER, MetaSTRING(8)>>
\* the column types of the page of SpecPage
PageMeta == <<MetaSTRING(8)>>
PageCatalog == [t \in {"users"} |-> PageMeta]

\* DataArray::INTEGER(v) and DataArray::STRING(s, s.len()); a string is the
\* sequence of its bytes, all ASCII here
DataINTEGER(v) == [type |-> "INTEGER", int |-> v, str |-> <<>>]
DataSTRING(s) == [type |-> "STRING", int |-> Len(s), str |-> s]

\* vec![0; n]
Zeros(n) == SubSeq([i \in 1..n |-> 0], 1, n)

RowA == <<DataINTEGER(1), DataSTRING(<<65>>)>>
RowB == <<DataINTEGER(28), DataSTRING(<<66, 67>>)>>
ShortRow == <<DataINTEGER(1)>>
WrongRow == <<DataSTRING(<<65>>), DataINTEGER(1)>>
ValidRows == {RowA, RowB}
\* a row of the schema whose string takes half a page
BigRow == <<DataINTEGER(7), DataSTRING(Zeros(BigLen))>>
RowInputs == ValidRows \cup {ShortRow, WrongRow, BigRow}
NoRow == <<>>

\* row_array::get_data_as_bytes, one value
FieldBytes(d) ==
    IF d.type = "INTEGER" THEN LE32(d.int) ELSE LE32(Len(d.str)) \o d.str

RECURSIVE get_data_as_bytes(_)
get_data_as_bytes(row) ==
    IF row = <<>> THEN <<>> ELSE FieldBytes(Head(row)) \o get_data_as_bytes(Tail(row))


\* RawData::new_without_array: a zeroed page
new_without_array(meta, page_size, header_size, page_id) ==
    [meta_data |-> meta, page_size |-> page_size, header_size |-> header_size,
     page_id |-> page_id, data |-> Zeros(page_size)]

\* i32::from_le_bytes(data[at .. at + 4]), at counted from 0
ReadI32(d, at) == FromLE32(SubSeq(d, at + 1, at + OFFSET_SIZE))

\* data[at .. at + b.len()].copy_from_slice(b), at counted from 0
WriteBytes(d, at, b) ==
    SubSeq(d, 1, at) \o b \o SubSeq(d, at + Len(b) + 1, Len(d))

\* an add_new_row that places every row at the end of the page, whatever
\* the last slot says
add_new_row_at_end(raw, row_data) ==
    LET h == raw.header_size
        n == Len(raw.data)
        row_count == ReadI32(raw.data, h)
        new_row_offset == raw.page_size - Len(row_data)
        new_slot_start == h + OFFSET_SIZE + row_count * OFFSET_SIZE
    IN  IF row_count < 0 \/ new_slot_start + OFFSET_SIZE > n \/ new_row_offset < 0
        THEN [fault |-> TRUE, raw |-> raw]
        ELSE [fault |-> FALSE,
              raw |-> [raw EXCEPT !.data =
                  WriteBytes(
                      WriteBytes(WriteBytes(raw.data, h, LE32(row_count + 1)),
                                 new_slot_start, LE32(new_row_offset)),
                      new_row_offset, row_data)]]

\* RawData::add_new_row: [fault, raw].  A slice that leaves the page panics,
\* after the writes before it are done; nothing compares the new row's start
\* with the end of the slot array.
add_new_row(raw, row_data) ==
    LET h == raw.header_size
        n == Len(raw.data)
        row_count == ReadI32(raw.data, h)
        slot_array_start == h + OFFSET_SIZE
        last_slot_start == slot_array_start + (row_count - 1) * OFFSET_SIZE
        last_row_offset ==
            IF row_count > 0 THEN ReadI32(raw.data, last_slot_start) ELSE raw.page_size
        new_row_offset == last_row_offset - Len(row_data)
        new_slot_start == slot_array_start + row_count * OFFSET_SIZE
    IN  IF h + OFFSET_SIZE > n THEN [fault |-> TRUE, raw |-> raw]
        ELSE IF row_count < 0 THEN [fault |-> TRUE, raw |-> raw]
        ELSE IF row_count > 0 /\ last_slot_start + OFFSET_SIZE > n
             THEN [fault |-> TRUE, raw |-> raw]
        ELSE IF new_slot_start + OFFSET_SIZE > n
             THEN [fault |-> TRUE,
                   raw |-> [raw EXCEPT !.data = WriteBytes(raw.data, h, LE32(row_count + 1))]]
        ELSE IF new_row_offset < 0 \/ new_row_offset + Len(row_data) > n
             THEN [fault |-> TRUE,
                   raw |-> [raw EXCEPT !.data =
                       WriteBytes(WriteBytes(raw.data, h, LE32(row_count + 1)),
                                  new_slot_start, LE32(new_row_offset))]]
        ELSE [fault |-> FALSE,
              raw |-> [raw EXCEPT !.data =
                  WriteBytes(
                      WriteBytes(WriteBytes(raw.data, h, LE32(row_count + 1)),
                                 new_slot_start, LE32(new_row_offset)),
                      new_row_offset, row_data)]]

\* the text pieces of data_as_str, as ASCII codes
TextINTEGER == <<73, 78, 84, 69, 71, 69, 82, 58, 32>>
TextSTRING == <<83, 84, 82, 73, 78, 71, 58, 32>>
TextSep == <<44, 32>>

\* format!("{}", v) of an i32
RECURSIVE Decimal(_)
Decimal(v) ==
    IF v < 0 THEN <<45>> \o Decimal(0 - v)
    ELSE IF v < 10 THEN <<48 + v>>
    ELSE Decimal(v \div 10) \o <<48 + (v % 10)>>

TextPanic == [fault |-> TRUE, text |-> <<>>]
TextOk(t) == [fault |-> FALSE, text |-> t]
TextThen(t, r) == IF r.fault THEN TextPanic ELSE TextOk(t \o r.text)

\* the loop of data_as_str over the column types, current_pos counted from 0
RECURSIVE DecodeFields(_, _, _)
DecodeFields(slice, meta, current_pos) ==
    IF meta = <<>> THEN TextOk(<<>>)
    ELSE IF current_pos + 4 > Len(slice) THEN TextPanic
    ELSE LET v == ReadI32(slice, current_pos)
         IN  IF Head(meta).type = "INTEGER"
             THEN TextThen(TextINTEGER \o Decimal(v) \o TextSep,
                           DecodeFields(slice, Tail(meta), current_pos + 4))
             ELSE IF v < 0 THEN TextPanic
             ELSE IF current_pos + 4 + v > Len(slice) THEN TextPanic
             ELSE TextThen(TextSTRING \o
                               SubSeq(slice, current_pos + 5, current_pos + 4 + v) \o
                               TextSep,
                           DecodeFields(slice, Tail(meta), current_pos + 4 + v))

\* RawData::data_as_str(offset): [fault, text]
data_as_str(raw, offset) ==
    LET h == raw.header_size
        n == Len(raw.data)
        row_count == ReadI32(raw.data, h)
        slot_array_start == h + OFFSET_SIZE
        row_start_in_slot == slot_array_start + offset * OFFSET_SIZE
        row_data_start == ReadI32(raw.data, row_start_in_slot)
        row_data_end ==
            IF offset = 0 THEN raw.page_size
            ELSE ReadI32(raw.data, slot_array_start + (offset - 1) * OFFSET_SIZE)
    IN  IF h + OFFSET_SIZE > n THEN TextPanic
        ELSE IF row_count >= 0 /\ offset >= row_count THEN TextOk(<<>>)
        ELSE IF row_start_in_slot + OFFSET_SIZE > n THEN TextPanic
        ELSE IF row_data_start < 0 THEN TextPanic
        ELSE IF row_data_start > row_data_end THEN TextPanic
        ELSE IF row_data_end > n THEN TextPanic
        ELSE DecodeFields(SubSeq(raw.data, row_data_start + 1, row_data_end),
                          raw.meta_data, 0)

\* a write_to_file that seeks to page_id, not to page_id * page_size
write_to_file_at_page_id(f, raw) ==
    LET required_file_size == (raw.page_id + 1) * raw.page_size
        grown == IF required_file_size > Len(f.bytes)
                 THEN f.bytes \o Zeros(required_file_size - Len(f.bytes))
                 ELSE f.bytes
    IN  [exists |-> TRUE,
         bytes |-> WriteBytes(grown, raw.page_id, raw.data)]

\* File_Handler::write_to_file: the file grown to hold the page, the page
\* written at page_id * page_size
write_to_file(f, raw) ==
    LET required_file_size == (raw.page_id + 1) * raw.page_size
        grown == IF required_file_size > Len(f.bytes)
                 THEN f.bytes \o Zeros(required_file_size - Len(f.bytes))
                 ELSE f.bytes
    IN  [exists |-> TRUE,
         bytes |-> WriteBytes(grown, raw.page_id * raw.page_size, raw.data)]

\* File_Handler::read_from_file: [fault, raw]; the page it returns has
\* header_size 0
read_from_file(f, cat, schema_name, page_id, page_size) ==
    LET start_pos == page_id * page_size
        none == new_without_array(<<>>, page_size, READ_HEADER_SIZE, page_id)
    IN  IF ~f.exists THEN [fault |-> TRUE, raw |-> none]
        ELSE IF start_pos + page_size > Len(f.bytes) THEN [fault |-> TRUE, raw |-> none]
        ELSE IF ~(schema_name \in DOMAIN cat) THEN [fault |-> TRUE, raw |-> none]
        ELSE [fault |-> FALSE,
              raw |-> [meta_data |-> cat[schema_name], page_size |-> page_size,
                       header_size |-> READ_HEADER_SIZE, page_id |-> page_id,
                       data |-> SubSeq(f.bytes, start_pos + 1, start_pos + page_size)]]

\* ------------------------------------------------------------------------
\* Query facade (TableQueryHandler.rs)
\* ------------------------------------------------------------------------
NoInfo == [present |-> FALSE, page_id |-> 0, row_count |-> 0]
\* the values an error message of validate_row_data is formatted from: the
\* column index, and what was expected and got, each as [type, size]
NoKind == [type |-> "", size |-> 0]
NoDetail == [column |-> 0, expected |-> NoKind, got |-> NoKind]
NoCall == [op |-> "none", table |-> "", key |-> 0, status |-> "None", err |-> "",
           text |-> <<>>, row |-> <<>>, detail |-> NoDetail]

\* TableQueryHandler::types_match
types_match(meta_type, data_type) == meta_type.type = data_type.type

\* TableQueryHandler::type_name: "INTEGER", "STRING(len)"
type_name(meta_type) ==
    [type |-> meta_type.type,
     size |-> IF meta_type.type = "STRING" THEN meta_type.size ELSE 0]

\* TableQueryHandler::data_type_name: "INTEGER", "STRING(len)"
data_type_name(data_type) ==
    [type |-> data_type.type,
     size |-> IF data_type.type = "STRING" THEN data_type.int ELSE 0]

\* the columns (from 1) whose value is not of the type of the schema
Mismatches(table_meta, row) ==
    {i \in 1..Len(row) : ~types_match(table_meta[i], row[i])}

\* "Column count mismatch: expected {}, got {}"
CountMismatch(table_meta, row) ==
    [err |-> "Column count mismatch",
     detail |-> [column |-> -1,
                 expected |-> [type |-> "columns", size |-> Len(table_meta)],
                 got |-> [type |-> "columns", size |-> Len(row)]]]

\* "Type mismatch at column {}: expected {}, got {}" for column i (from 1)
TypeMismatch(table_meta, row, i) ==
    [err |-> "Type mismatch",
     detail |-> [column |-> i - 1, expected |-> type_name(table_meta[i]),
                 got |-> data_type_name(row[i])]]

\* TableQueryHandler::validate_row_data, reporting the last column that does
\* not match
validate_row_data_last(table_meta, row) ==
    IF Len(table_meta) # Len(row) THEN CountMismatch(table_meta, row)
    ELSE IF Mismatches(table_meta, row) # {}
         THEN TypeMismatch(table_meta, row,
                           CHOOSE i \in Mismatches(table_meta, row) :
                               \A j \in Mismatches(table_meta, row) : j <= i)
    ELSE [err |-> "Ok", detail |-> NoDetail]

\* TableQueryHandler::validate_row_data: [err, detail], err "Ok" for Ok(())
validate_row_data(table_meta, row) ==
    IF Len(table_meta) # Len(row) THEN CountMismatch(table_meta, row)
    ELSE IF Mismatches(table_meta, row) # {}
         THEN TypeMismatch(table_meta, row,
                           CHOOSE i \in Mismatches(table_meta, row) :
                               \A j \in Mismatches(table_meta, row) : i <= j)
    ELSE [err |-> "Ok", detail |-> NoDetail]

\* TableQueryHandler::get_table_metadata, with no columns for a table that
\* is not in the catalog
get_table_metadata_or_empty(cat, t) ==
    [ok |-> TRUE, meta |-> IF t \in DOMAIN cat THEN cat[t] ELSE <<>>]

\* TableQueryHandler::get_table_metadata: [ok, meta]
get_table_metadata(cat, t) ==
    IF t \in DOMAIN cat THEN [ok |-> TRUE, meta |-> cat[t]]
    ELSE [ok |-> FALSE, meta |-> <<>>]

\* TableQueryHandler::create_row: [status, err, row]; nothing compares the
\* values with the columns
create_row(cat, t, values) ==
    IF ~get_table_metadata(cat, t).ok
    THEN [status |-> "Err", err |-> "Table not found", row |-> <<>>]
    ELSE [status |-> "Ok", err |-> "", row |-> values]

\* the page insert appends to: the current page read back from the file if
\* the file exists and the read does not panic, else a fresh page
CurrentPage(f, cat, t, page_id) ==
    LET fresh == new_without_array(cat[t], PAGE_SIZE, HEADER_SIZE, page_id)
    IN  IF ~f.exists THEN fresh
        ELSE The({ IF rd.fault THEN fresh ELSE rd.raw
                   : rd \in {read_from_file(f, cat, t, page_id, PAGE_SIZE)} })

\* what a call of TableQueryHandler::insert that passed validation does,
\* given the current page raw and the result a of add_new_row on it
InsertOutcome(t, k, info, raw, a) ==
    LET current_row_count == ReadI32(raw.data, raw.header_size)
        started == [status |-> "Panic", err |-> "", fault |-> TRUE,
                    detail |-> NoDetail,
                    table_indexes |-> table_indexes \cup {t},
                    table_page_info |-> [table_page_info EXCEPT ![t] = info],
                    datFile |-> datFile, nodes |-> nodes, root |-> root,
                    loc |-> <<info.page_id, current_row_count>>]
        written == [started EXCEPT
                    !.datFile = write_to_file(datFile, a.raw),
                    !.table_page_info =
                        [table_page_info EXCEPT ![t] =
                            [present |-> TRUE, page_id |-> info.page_id,
                             row_count |-> current_row_count + 1]]]
    IN  IF a.fault THEN started
        ELSE The({ IF tr.fault THEN written
                   ELSE [written EXCEPT !.status = "Ok", !.fault = FALSE,
                                        !.nodes = tr.nodes, !.root = tr.root]
                   : tr \in {insert(nodes, root,
                                    Key(k, <<info.page_id, current_row_count>>))} })

\* TableQueryHandler::insert(table_name, primary_key, row_data)
TableQueryHandler_insert(t, k, row) ==
    LET unchanged == [status |-> "Err", err |-> "Table not found", fault |-> FALSE,
                      detail |-> NoDetail,
                      table_indexes |-> table_indexes,
                      table_page_info |-> table_page_info,
                      datFile |-> datFile, nodes |-> nodes, root |-> root,
                      loc |-> NoLoc]
    IN  IF ~get_table_metadata(catalog, t).ok THEN unchanged
        ELSE IF validate_row_data(get_table_metadata(catalog, t).meta, row).err # "Ok"
             THEN [unchanged EXCEPT
                     !.err = validate_row_data(get_table_metadata(catalog, t).meta,
                                               row).err,
                     !.detail = validate_row_data(get_table_metadata(catalog, t).meta,
                                                  row).detail]
        ELSE LET info == IF table_page_info[t].present THEN table_page_info[t]
                         ELSE [present |-> TRUE, page_id |-> 0, row_count |-> 0]
             IN  The({ The({ InsertOutcome(t, k, info, raw, a)
                             : a \in {add_new_row(raw, get_data_as_bytes(row))} })
                       : raw \in {CurrentPage(datFile, catalog, t, info.page_id)} })

\* table_indexes.contains_key, true of every table
contains_any_key(indexes, t) == TRUE

\* table_indexes.contains_key(table_name)
contains_key(indexes, t) == t \in indexes

\* TableQueryHandler::select(table_name, primary_key): [status, err, text, fault]
TableQueryHandler_select(t, k) ==
    IF ~contains_key(table_indexes, t)
    THEN [status |-> "Err", err |-> "not found or has no data", text |-> <<>>,
          fault |-> FALSE]
    ELSE The({ IF r.fault
               THEN [status |-> "Panic", err |-> "", text |-> <<>>, fault |-> TRUE]
               ELSE IF ~r.hit
               THEN [status |-> "Miss", err |-> "", text |-> <<>>, fault |-> FALSE]
               ELSE The({ IF rd.fault
                          THEN [status |-> "Panic", err |-> "", text |-> <<>>,
                                fault |-> TRUE]
                          ELSE The({ IF s.fault
                                     THEN [status |-> "Panic", err |-> "",
                                           text |-> <<>>, fault |-> TRUE]
                                     ELSE [status |-> "Hit", err |-> "",
                                           text |-> s.text, fault |-> FALSE]
                                     : s \in {data_as_str(rd.raw, r.data.offset)} })
                          : rd \in {read_from_file(datFile, catalog, t,
                                                   r.data.page_id, PAGE_SIZE)} })
               : r \in {search(nodes, root, k)} })

\* ------------------------------------------------------------------------
\* LRU page cache (LruDict.rs)
\* ------------------------------------------------------------------------
\* The nodes of the list live in an arena lnodes; 0 is None.  A node is
\* dropped when no strong reference (dict, head, tail, a next field) leads
\* to it; prev is a weak reference, which upgrades to None once its node is
\* dropped.
PageIds == {1, 2, 3, 4}
Pages == {"p1", "p2"}
NodeIds == 1..(MaxCapacity + 3)

FreeNode == [live |-> FALSE, key |-> 0, value |-> "", prev |-> 0, next |-> 0]
NoCache == [made |-> FALSE, capacity |-> 0, dict |-> [k \in PageIds |-> 0],
            lnodes |-> [n \in NodeIds |-> FreeNode], head |-> 0, tail |-> 0,
            fault |-> FALSE]
NoCacheCall == [op |-> "none", key |-> 0, hit |-> FALSE, value |-> "",
                evicted |-> {}, moved |-> FALSE]

\* LRUDict::new(capacity)
new(capacity) == [NoCache EXCEPT !.made = TRUE, !.capacity = capacity]

\* dict.len()
DictLen(c) == Cardinality({k \in PageIds : c.dict[k] # 0})

\* Weak::upgrade
Upgrade(c, n) == IF n # 0 /\ c.lnodes[n].live THEN n ELSE 0

\* the nodes some strong reference leads to
RECURSIVE StrongFrom(_, _)
StrongFrom(c, S) ==
    LET T == S \cup ({c.lnodes[n].next : n \in S} \ {0})
    IN  IF T = S THEN S ELSE StrongFrom(c, T)
Strong(c) == StrongFrom(c, ({c.dict[k] : k \in PageIds} \cup {c.head, c.tail}) \ {0})

\* the nodes no strong reference leads to are dropped
Drop(c) ==
    [c EXCEPT !.lnodes = [n \in NodeIds |->
                             IF n \in Strong(c) THEN c.lnodes[n] ELSE FreeNode]]

\* Rc::new: a node that is not in use
FreshNode(c) == CHOOSE n \in NodeIds : ~c.lnodes[n].live /\
                    \A m \in NodeIds : ~c.lnodes[m].live => n <= m

\* DoublyLinkedList::push_to_tail: [c, node]
push_to_tail(c, key, value) ==
    LET n == FreshNode(c)
        made == [c EXCEPT !.lnodes[n] = [live |-> TRUE, key |-> key, value |-> value,
                                         prev |-> c.tail, next |-> 0]]
        linked == IF c.tail # 0
                  THEN [made EXCEPT !.lnodes[c.tail].next = n]
                  ELSE [made EXCEPT !.head = n]
    IN  [c |-> [linked EXCEPT !.tail = n], node |-> n]

\* DoublyLinkedList::unlink_node
unlink_node(c, node) ==
    LET prev_node == Upgrade(c, c.lnodes[node].prev)
        next_node == c.lnodes[node].next
    IN  IF prev_node # 0 /\ next_node # 0
        THEN [c EXCEPT !.lnodes[prev_node].next = next_node,
                       !.lnodes[next_node].prev = prev_node]
        ELSE IF prev_node # 0
        THEN [c EXCEPT !.lnodes[prev_node].next = 0, !.tail = prev_node]
        ELSE IF next_node # 0
        THEN [c EXCEPT !.lnodes[next_node].prev = 0, !.head = next_node]
        ELSE [c EXCEPT !.head = 0, !.tail = 0]

\* a move_to_tail that returns before it moves anything
move_to_tail_returns(c, node) == c

\* DoublyLinkedList::move_to_tail; self.tail.take().unwrap() panics on None
move_to_tail(c, node) ==
    IF c.tail # 0 /\ node = c.tail THEN c
    ELSE LET u == unlink_node(c, node)
             old_tail == u.tail
         IN  IF old_tail = 0 THEN [u EXCEPT !.fault = TRUE]
             ELSE [u EXCEPT !.lnodes[node].prev = old_tail,
                            !.lnodes[node].next = 0,
                            !.lnodes[old_tail].next = node,
                            !.tail = node]

\* a remove_lru that takes the tail of the list instead of the head
remove_lru_tail(c) ==
    IF c.tail # 0
    THEN unlink_node([c EXCEPT !.dict[c.lnodes[c.tail].key] = 0], c.tail)
    ELSE c

\* LRUDict::remove_lru
remove_lru(c) ==
    IF c.head # 0
    THEN unlink_node([c EXCEPT !.dict[c.lnodes[c.head].key] = 0], c.head)
    ELSE c

\* LRUDict::add_element
add_element(c, key, value) ==
    IF c.dict[key] # 0
    THEN move_to_tail([c EXCEPT !.lnodes[c.dict[key]].value = value], c.dict[key])
    ELSE LET room == IF DictLen(c) >= c.capacity THEN remove_lru(c) ELSE c
             p == push_to_tail(Drop(room), key, value)
         IN  [p.c EXCEPT !.dict[key] = p.node]

\* a get that clones the page of the tail node instead of the node found
get_tail_page(c, key) ==
    IF c.dict[key] # 0
    THEN [c |-> move_to_tail(c, c.dict[key]), hit |-> TRUE,
          value |-> c.lnodes[c.tail].value]
    ELSE [c |-> c, hit |-> FALSE, value |-> ""]

\* LRUDict::get: [c, hit, value]; value is a clone of the stored page, a
\* Box<RawData> that shares nothing with the node
get(c, key) ==
    IF c.dict[key] # 0
    THEN [c |-> move_to_tail(c, c.dict[key]), hit |-> TRUE,
          value |-> c.lnodes[c.dict[key]].value]
    ELSE [c |-> c, hit |-> FALSE, value |-> ""]

\* ------------------------------------------------------------------------
\* Catalog (TableMetaHandler.rs, TableCreationHandler.rs)
\* ------------------------------------------------------------------------

\* MetaEnum in the catalog.  The i64 of STRING is kept as its eight
\* little-endian bytes, so that the casts to and from i32 are what they are
\* on every 64-bit value.
ColINTEGER == [type |-> "INTEGER", len |-> <<>>]
ColBIGINT == [type |-> "BIGINT", len |-> <<>>]
ColSTRING(len8) == [type |-> "STRING", len |-> len8]

\* struct TableColumn; the names are the bytes of the string
TableColumn(column_name, column_type, is_primary) ==
    [column_name |-> column_name, column_type |-> column_type,
     is_primary |-> is_primary]

\* table names offered to create-table: the empty name, "a", "b", ...
TableNames == {<<>>} \cup {<<96 + i>> : i \in 1..MaxTables}

\* column lists offered to create-table
ColsPlain ==
    <<TableColumn(<<105>>, ColINTEGER, TRUE),
      TableColumn(<<110>>, ColSTRING(<<8, 0, 0, 0, 0, 0, 0, 0>>), FALSE)>>
\* STRING(4294967304), a length above the range of i32, and no primary key
ColsWide ==
    <<TableColumn(<<110>>, ColSTRING(<<8, 0, 0, 0, 1, 0, 0, 0>>), FALSE),
      TableColumn(<<98>>, ColBIGINT, FALSE)>>
ColsEmpty == <<>>
ColsDupName ==
    <<TableColumn(<<105>>, ColINTEGER, TRUE),
      TableColumn(<<105>>, ColSTRING(<<8, 0, 0, 0, 0, 0, 0, 0>>), FALSE)>>
ColsTwoPrimary ==
    <<TableColumn(<<105>>, ColINTEGER, TRUE),
      TableColumn(<<110>>, ColSTRING(<<8, 0, 0, 0, 0, 0, 0, 0>>), TRUE)>>
ColumnLists == {ColsPlain, ColsWide, ColsEmpty, ColsDupName, ColsTwoPrimary}

\* enum DataTypeVsId as u8
DataTypeVsId(type) ==
    CASE type = "INTEGER" -> 1
      [] type = "FLOAT" -> 2
      [] type = "DOUBLE" -> 3
      [] type = "BIGINT" -> 4
      [] type = "STRING" -> 5

\* DataTypeVsId::from_meta_enum: the id and, for STRING, `*len as i32` as its
\* four little-endian bytes
from_meta_enum(meta) ==
    [id |-> DataTypeVsId(meta.type),
     string_length |-> IF meta.type = "STRING" THEN SubSeq(meta.len, 1, 4) ELSE <<>>]

\* DataTypeVsId::to_meta_enum on the id byte b and the four bytes read for a
\* STRING: `string_length as i64` extends the sign
to_meta_enum(b, string_length) ==
    CASE b = 1 -> ColINTEGER
      [] b = 2 -> [type |-> "FLOAT", len |-> <<>>]
      [] b = 3 -> [type |-> "DOUBLE", len |-> <<>>]
      [] b = 4 -> ColBIGINT
      [] b = 5 -> ColSTRING(string_length \o
                            (IF string_length[4] >= 128 THEN <<255, 255, 255, 255>>
                             ELSE <<0, 0, 0, 0>>))

\* columns.iter().map(|col| col.column_type.clone()).collect()
RECURSIVE meta_columns(_)
meta_columns(columns) ==
    IF columns = <<>> THEN <<>>
    ELSE <<Head(columns).column_type>> \o meta_columns(Tail(columns))

\* TableMetaHandler::new: both maps empty
NoTables == [table_id |-> <<>>, table_id_meta |-> <<>>]

\* HashMap::insert
MapInsert(m, k, v) == (k :> v) @@ m

\* the bytes of the columns of one record of the metadata file
RECURSIVE ColumnRecordBytes(_)
ColumnRecordBytes(columns) ==
    IF columns = <<>> THEN <<>>
    ELSE <<from_meta_enum(Head(columns)).id>>
             \o from_meta_enum(Head(columns)).string_length
             \o ColumnRecordBytes(Tail(columns))

\* TableMetaHandler::append_table_to_file: the file after the append
append_table_to_file(f, table_id, table_name, columns) ==
    LET column_bytes == ColumnRecordBytes(columns)
        data_length == 4 + 4 + Len(table_name) + 4 + Len(column_bytes)
    IN  [exists |-> TRUE,
         bytes |-> f.bytes \o LE32(data_length) \o LE32(table_id)
                     \o LE32(Len(table_name)) \o table_name
                     \o LE32(Len(columns)) \o column_bytes]

\* TableMetaHandler::add_table: both maps, then the file
add_table(c, f, table_id, table_name, columns) ==
    [config |-> [table_id |-> MapInsert(c.table_id, table_name, table_id),
                 table_id_meta |-> MapInsert(c.table_id_meta, table_id, columns)],
     file |-> append_table_to_file(f, table_id, table_name, columns)]

LoadErr == [ok |-> FALSE, config |-> NoTables]

\* the column loop of load_meta_file: n columns left, offset off
RECURSIVE ReadColumns(_, _, _, _)
ReadColumns(buf, off, n, columns) ==
    IF n <= 0 THEN [ok |-> TRUE, off |-> off, columns |-> columns]
    ELSE IF off + 1 > Len(buf) THEN [ok |-> FALSE, off |-> off, columns |-> columns]
    ELSE IF ~(buf[off + 1] \in 1..5)
         THEN [ok |-> FALSE, off |-> off, columns |-> columns]
    ELSE IF buf[off + 1] # 5
         THEN ReadColumns(buf, off + 1, n - 1,
                          Append(columns, to_meta_enum(buf[off + 1], <<>>)))
    ELSE IF off + 5 > Len(buf) THEN [ok |-> FALSE, off |-> off, columns |-> columns]
    ELSE ReadColumns(buf, off + 5, n - 1,
                     Append(columns, to_meta_enum(5, SubSeq(buf, off + 2, off + 5))))

\* the record loop of load_meta_file at offset off, c the maps so far.  The
\* end of the file where a record length is read ends the loop; anywhere
\* else it is an error.  The name is valid UTF-8, which from_utf8_lossy
\* leaves as it is.
RECURSIVE LoadRecords(_, _, _)
LoadRecords(buf, off, c) ==
    IF off + 4 > Len(buf) THEN [ok |-> TRUE, config |-> c]
    ELSE IF off + 12 > Len(buf) THEN LoadErr
    ELSE LET table_id == FromLE32(SubSeq(buf, off + 5, off + 8))
             table_name_length == FromLE32(SubSeq(buf, off + 9, off + 12))
             name_end == off + 12 + table_name_length
         IN  IF table_name_length < 0 THEN LoadErr
             ELSE IF name_end + 4 > Len(buf) THEN LoadErr
             ELSE LET table_name == SubSeq(buf, off + 13, name_end)
                      num_columns == FromLE32(SubSeq(buf, name_end + 1, name_end + 4))
                  IN  The({ IF ~rc.ok THEN LoadErr
                            ELSE LoadRecords(buf, rc.off,
                                   [table_id |-> MapInsert(c.table_id, table_name, table_id),
                                    table_id_meta |->
                                        MapInsert(c.table_id_meta, table_id, rc.columns)])
                            : rc \in {ReadColumns(buf, name_end + 4, num_columns, <<>>)} })

\* TableMetaHandler::new(file_name) then load_meta_file: [ok, config, file];
\* a file that does not exist is created empty
load_meta_file(f) ==
    IF ~f.exists
    THEN [ok |-> TRUE, config |-> NoTables, file |-> [exists |-> TRUE, bytes |-> <<>>]]
    ELSE The({ [ok |-> r.ok, config |-> r.config, file |-> f]
               : r \in {LoadRecords(f.bytes, 0, NoTables)} })

\* TableMetaHandler::get_all_tables, the ids: those of the names whose id has
\* a column list
get_all_tables(c) ==
    {c.table_id[n] : n \in {m \in DOMAIN c.table_id :
                               c.table_id[m] \in DOMAIN c.table_id_meta}}

\* TableMetaHandler::get_table_id(name).is_some()
get_table_id_is_some(c, table_name) == table_name \in DOMAIN c.table_id

SetMax(S) == CHOOSE x \in S : \A y \in S : y <= x

\* TableCreationHandler::get_next_table_id, with max_id + 1 of the maximum
\* of nothing
get_next_table_id_from_one(c) ==
    (IF get_all_tables(c) = {} THEN 0 ELSE SetMax(get_all_tables(c))) + 1

\* TableCreationHandler::get_next_table_id
get_next_table_id(c) ==
    (IF get_all_tables(c) = {} THEN 2 ELSE SetMax(get_all_tables(c))) + 1

\* TableCreationHandler::new: both trees empty
NewHandler == [table_id_vs_range_btree |-> EmptyTree,
               table_vs_column_btree |-> EmptyTree]

\* TableCreationHandler::serialize_column_data
serialize_column_data(table_id, column) ==
    LE32(table_id) \o LE32(Len(column.column_name)) \o column.column_name
        \o <<from_meta_enum(column.column_type).id>>
        \o from_meta_enum(column.column_type).string_length
        \o <<IF column.is_primary THEN 1 ELSE 0>>

\* the schema of the pages of table_metadata.dat
column_meta_schema ==
    <<MetaINTEGER, MetaSTRING(256), MetaINTEGER, MetaINTEGER, MetaINTEGER>>

\* TableCreationHandler::write_column_data_to_file: [fault, file]; a fresh
\* page 0 with the one row replaces page 0 of the file
write_column_data_to_file(cf, column_data) ==
    The({ [fault |-> a.fault,
           file |-> IF a.fault THEN cf ELSE write_to_file(cf, a.raw)]
          : a \in {add_new_row(new_without_array(column_meta_schema,
                                                 PAGE_SIZE, HEADER_SIZE, 0),
                               column_data)} })

\* TableCreationHandler::add_table_columns_to_btree from column column_index
\* (from 0) on: [fault, tree, file]
RECURSIVE add_table_columns_to_btree(_, _, _, _, _)
add_table_columns_to_btree(tree, cf, table_id, columns, column_index) ==
    IF column_index >= Len(columns) THEN [fault |-> FALSE, tree |-> tree, file |-> cf]
    ELSE The({ IF w.fault THEN [fault |-> TRUE, tree |-> tree, file |-> cf]
               ELSE The({ IF t.fault THEN [fault |-> TRUE, tree |-> tree, file |-> w.file]
                          ELSE add_table_columns_to_btree(t, w.file, table_id, columns,
                                                          column_index + 1)
                          : t \in {insert(tree.nodes, tree.root,
                                          Key(table_id * 1000 + column_index,
                                              <<0, 0>>))} })
               : w \in {write_column_data_to_file(
                            cf, serialize_column_data(table_id,
                                                      columns[column_index + 1]))} })

\* TableCreationHandler::update_table_id_range
update_table_id_range(tree, table_id) ==
    insert(tree.nodes, tree.root, Key(table_id, <<0, table_id>>))

\* TableCreationHandler::create_table on the catalog c, the metadata file f,
\* the handler h and the file cf of the handler
create_table(c, f, h, cf, table_name, columns) ==
    LET table_id == get_next_table_id(c)
        added == add_table(c, f, table_id, table_name, meta_columns(columns))
    IN  The({ The({ [status |-> IF cb.fault \/ rt.fault THEN "Panic" ELSE "Ok",
                     err |-> "", table_id |-> table_id,
                     config |-> added.config, file |-> added.file,
                     handler |-> [table_vs_column_btree |->
                                      [cb.tree EXCEPT !.fault = FALSE],
                                  table_id_vs_range_btree |->
                                      IF cb.fault \/ rt.fault
                                      THEN h.table_id_vs_range_btree ELSE rt],
                     colFile |-> cb.file]
                    : rt \in {update_table_id_range(h.table_id_vs_range_btree,
                                                    table_id)} })
              : cb \in {add_table_columns_to_btree(h.table_vs_column_btree, cf,
                                                   table_id, columns, 0)} })

\* the names of the columns before position i
NamesBefore(columns, i) == {columns[j].column_name : j \in 1..(i - 1)}

\* TableCreationHandler::validate_table_creation, with no test of the
\* primary keys
validate_table_creation_any_primary(table_name, columns) ==
    IF table_name = <<>> THEN "Table name cannot be empty"
    ELSE IF columns = <<>> THEN "Table must have at least one column"
    ELSE IF \E i \in 1..Len(columns) : columns[i].column_name \in NamesBefore(columns, i)
         THEN "Duplicate column name"
    ELSE "Ok"

\* TableCreationHandler::validate_table_creation: "Ok" or the error
validate_table_creation(table_name, columns) ==
    IF table_name = <<>> THEN "Table name cannot be empty"
    ELSE IF columns = <<>> THEN "Table must have at least one column"
    ELSE IF \E i \in 1..Len(columns) : columns[i].column_name \in NamesBefore(columns, i)
         THEN "Duplicate column name"
    ELSE IF Cardinality({i \in 1..Len(columns) : columns[i].is_primary}) > 1
         THEN "Table cannot have multiple primary key columns"
    ELSE "Ok"

\* what a call that returns an error leaves
Refused(c, f, h, cf, e) ==
    [status |-> "Err", err |-> e, table_id |-> 0, config |-> c, file |-> f,
     handler |-> h, colFile |-> cf]

\* TableCreationHandler::create_table_with_validation, with no test of the
\* name
create_table_unchecked_name(c, f, h, cf, table_name, columns) ==
    IF validate_table_creation(table_name, columns) # "Ok"
    THEN Refused(c, f, h, cf, validate_table_creation(table_name, columns))
    ELSE create_table(c, f, h, cf, table_name, columns)

\* TableCreationHandler::create_table_with_validation
create_table_with_validation(c, f, h, cf, table_name, columns) ==
    IF validate_table_creation(table_name, columns) # "Ok"
    THEN Refused(c, f, h, cf, validate_table_creation(table_name, columns))
    ELSE IF get_table_id_is_some(c, table_name)
    THEN Refused(c, f, h, cf, "Table already exists")
    ELSE create_table(c, f, h, cf, table_name, columns)

\* ------------------------------------------------------------------------
\* Schema file and disk errors (TableMetaHandler.rs)
\* ------------------------------------------------------------------------
MaxBoots == 3

\* the bytes of "TableIdVsRange" and of "tableVsColumn"
TableIdVsRange == <<84, 97, 98, 108, 101, 73, 100, 86, 115, 82, 97, 110, 103, 101>>
tableVsColumn == <<116, 97, 98, 108, 101, 86, 115, 67, 111, 108, 117, 109, 110>>

\* tables_to_create of load_table_schema_meta
tables_to_create == <<[id |-> 1, name |-> TableIdVsRange],
                      [id |-> 2, name |-> tableVsColumn]>>

\* the loop of load_table_schema_meta that writes the entries from entry i
\* on: [bytes, table_id]
RECURSIVE WriteSchemaEntries(_, _, _, _)
WriteSchemaEntries(entries, i, bytes, table_id) ==
    IF i > Len(entries) THEN [bytes |-> bytes, table_id |-> table_id]
    ELSE LET name_len == Len(entries[i].name)
             entry_size == 4 + name_len + 4
         IN  WriteSchemaEntries(entries, i + 1,
                                bytes \o LE32(entry_size) \o LE32(name_len)
                                      \o entries[i].name \o LE32(entries[i].id),
                                MapInsert(table_id, entries[i].name, entries[i].id))

\* the loop of load_table_schema_meta that reads n more entries at offset
\* off: [ok, table_id]; read_exact past the end of the file is an error
RECURSIVE ReadSchemaEntries(_, _, _, _)
ReadSchemaEntries(buf, off, n, table_id) ==
    IF n <= 0 THEN [ok |-> TRUE, table_id |-> table_id]
    ELSE IF off + 8 > Len(buf) THEN [ok |-> FALSE, table_id |-> table_id]
    ELSE LET name_len == FromLE32(SubSeq(buf, off + 5, off + 8))
             name_end == off + 8 + name_len
         IN  IF name_len < 0 THEN [ok |-> FALSE, table_id |-> table_id]
             ELSE IF name_end + 4 > Len(buf) THEN [ok |-> FALSE, table_id |-> table_id]
             ELSE ReadSchemaEntries(
                      buf, name_end + 4, n - 1,
                      MapInsert(table_id, SubSeq(buf, off + 9, name_end),
                                FromLE32(SubSeq(buf, name_end + 1, name_end + 4))))

\* TableMetaHandler::load_table_schema_meta, with a file that is created
\* and seeded but no name put in the map
load_table_schema_meta_unmapped(table_id, f) ==
    IF ~f.exists
    THEN The({ [ok |-> TRUE, table_id |-> table_id,
                file |-> [exists |-> TRUE, bytes |-> w.bytes]]
               : w \in {WriteSchemaEntries(tables_to_create, 1,
                                           LE32(Len(tables_to_create)), table_id)} })
    ELSE IF Len(f.bytes) < 4 THEN [ok |-> TRUE, table_id |-> table_id, file |-> f]
    ELSE The({ [ok |-> r.ok, table_id |-> r.table_id, file |-> f]
               : r \in {ReadSchemaEntries(f.bytes, 4, FromLE32(SubSeq(f.bytes, 1, 4)),
                                          table_id)} })

\* TableMetaHandler::load_table_schema_meta on the map table_id of the
\* handler and the file schema/table_meta: [ok, table_id, file]
load_table_schema_meta(table_id, f) ==
    IF ~f.exists
    THEN The({ [ok |-> TRUE, table_id |-> w.table_id,
                file |-> [exists |-> TRUE, bytes |-> w.bytes]]
               : w \in {WriteSchemaEntries(tables_to_create, 1,
                                           LE32(Len(tables_to_create)), table_id)} })
    ELSE IF Len(f.bytes) < 4 THEN [ok |-> TRUE, table_id |-> table_id, file |-> f]
    ELSE The({ [ok |-> r.ok, table_id |-> r.table_id, file |-> f]
               : r \in {ReadSchemaEntries(f.bytes, 4, FromLE32(SubSeq(f.bytes, 1, 4)),
                                          table_id)} })

NoBoot == [runs |-> 0, seeded |-> FALSE]

\* TableMetaHandler::add_table when append_table_to_file returns an error
\* before it has written: both maps, and the file as it was
add_table_append_fails(c, f, table_id, table_name, columns) ==
    [config |-> [table_id |-> MapInsert(c.table_id, table_name, table_id),
                 table_id_meta |-> MapInsert(c.table_id_meta, table_id, columns)],
     file |-> f]

\* TableCreationHandler::create_table_with_validation when the metadata file
\* cannot be appended to: add_table_meta returns the error of add_table and
\* create_table returns it before it touches the trees
create_table_append_fails(c, f, h, cf, table_name, columns) ==
    IF validate_table_creation(table_name, columns) # "Ok"
    THEN Refused(c, f, h, cf, validate_table_creation(table_name, columns))
    ELSE IF get_table_id_is_some(c, table_name)
    THEN Refused(c, f, h, cf, "Table already exists")
    ELSE The({ [status |-> "Err", err |-> "Failed to add table to meta",
                table_id |-> 0, config |-> added.config, file |-> added.file,
                handler |-> h, colFile |-> cf]
               : added \in {add_table_append_fails(c, f, get_next_table_id(c),
                                                   table_name,
                                                   meta_columns(columns))} })

\* the threads that share the catalog, and a thread before its call
Threads == {1, 2}
IdleThread == [pc |-> "idle", table_name |-> <<>>, columns |-> <<>>, table_id |-> 0,
               status |-> "None", err |-> "", handler |-> NewHandler]

NoCatalogCall == [op |-> "none", table_name |-> <<>>, columns |-> <<>>,
                  status |-> "None", err |-> "", table_id |-> 0]

\* a thread that is in no call on the tree
IdleWalk == [op |-> "none", key |-> 0, node |-> 0, parent |-> 0, pc |-> "idle",
             held |-> {}]

\* ------------------------------------------------------------------------
\* Tree manager (TableBTreeManager.rs)
\* ------------------------------------------------------------------------
ManagerTableIds == {1, 2}

\* TableKey::Int(v) and TableKey::String(s); a string key is the number of
\* its place in the order of the strings offered
TableKeyInt(v) == [kind |-> "Int", val |-> v]
TableKeyString(v) == [kind |-> "String", val |-> v]

\* a table id that is not in table_trees
NoTableBTree == [registered |-> FALSE, kind |-> "", nodes |-> <<>>, root |-> 0]

\* TableBTree::new(key_type)
TableBTree_new(key_type) ==
    [registered |-> TRUE,
     kind |-> IF key_type = "INTEGER" THEN "Int" ELSE "String",
     nodes |-> <<>>, root |-> 0]

\* a TableBTree::insert that takes a key of any kind
TableBTree_insert_any_kind(tree, key_value, loc) ==
    The({ [err |-> "Ok", fault |-> r.fault,
           tree |-> [tree EXCEPT !.nodes = r.nodes, !.root = r.root]]
          : r \in {insert(tree.nodes, tree.root, Key(key_value.val, loc))} })

\* TableBTree::insert(key_value, page_id, offset): [err, fault, tree]
TableBTree_insert(tree, key_value, loc) ==
    IF tree.kind = key_value.kind
    THEN The({ [err |-> "Ok", fault |-> r.fault,
                tree |-> [tree EXCEPT !.nodes = r.nodes, !.root = r.root]]
               : r \in {insert(tree.nodes, tree.root, Key(key_value.val, loc))} })
    ELSE [err |-> "Key type mismatch with B+Tree type", fault |-> FALSE, tree |-> tree]

\* TableBTree::search(&key_value)
TableBTree_search(tree, key_value) ==
    IF tree.kind = key_value.kind
    THEN search(tree.nodes, tree.root, key_value.val)
    ELSE Miss

\* what a call on the manager returns: the Result, the Option in it for a
\* search, and whether the call panicked
NoManagerResult == [err |-> "", hit |-> FALSE, loc |-> NoLoc, fault |-> FALSE]

\* TableBTreeManager::register_table(table_id, primary_key_type)
TableBTreeManager_register_table(trees, table_id, key_type) ==
    [trees |-> [trees EXCEPT ![table_id] = TableBTree_new(key_type)],
     res |-> [NoManagerResult EXCEPT !.err = "Ok"]]

\* TableBTreeManager::insert(table_id, key_value, page_id, offset)
TableBTreeManager_insert(trees, table_id, key_value, loc) ==
    IF ~trees[table_id].registered
    THEN [trees |-> trees, res |-> [NoManagerResult EXCEPT !.err = "Table not found"]]
    ELSE The({ [trees |-> IF i.fault THEN trees
                          ELSE [trees EXCEPT ![table_id] = i.tree],
                res |-> [NoManagerResult EXCEPT !.err = i.err, !.fault = i.fault]]
               : i \in {TableBTree_insert(trees[table_id], key_value, loc)} })

\* TableBTreeManager::search(table_id, &key_value)
TableBTreeManager_search(trees, table_id, key_value) ==
    IF ~trees[table_id].registered
    THEN [trees |-> trees, res |-> [NoManagerResult EXCEPT !.err = "Table not found"]]
    ELSE The({ [trees |-> trees,
                res |-> [err |-> "Ok", hit |-> r.hit,
                         loc |-> IF r.hit THEN LocOf(r.data) ELSE NoLoc,
                         fault |-> r.fault]]
               : r \in {TableBTree_search(trees[table_id], key_value)} })

\* the closure that a call passes to with_btree_manager, run on trees
ManagerCall(trees, c) ==
    IF c.op = "register"
    THEN TableBTreeManager_register_table(trees, c.table_id, c.key_type)
    ELSE IF c.op = "insert"
    THEN TableBTreeManager_insert(trees, c.table_id, c.key, <<0, c.key.val>>)
    ELSE TableBTreeManager_search(trees, c.table_id, c.key)

\* a mutex that is handed to every thread that asks
lock_unguarded(holder) == TRUE

\* BTREE_MANAGER.lock() returns once no thread holds the guard
lock(holder) == holder = 0

\* the manager after initialize_btree_manager, a thread in no call, and the
\* history before any call
NewManager == [holder |-> 0, writer |-> 0,
               table_trees |-> [id \in ManagerTableIds |-> NoTableBTree]]
NoManagerCall == [pc |-> "idle", op |-> "none", table_id |-> 0, key_type |-> "",
                  key |-> TableKeyInt(0), res |-> NoManagerResult,
                  expect |-> NoManagerResult]
NoSerial == [table_trees |-> [id \in ManagerTableIds |-> NoTableBTree],
             torn |-> FALSE, n |-> 0]

\* no write_to_file call yet
NoWrite == [called |-> FALSE, page_id |-> 0, page_size |-> 0, data |-> <<>>,
            before |-> <<>>]

\* ------------------------------------------------------------------------
\* Specification Spec: insert and search calls on one tree
\* ------------------------------------------------------------------------
Init ==
    /\ nodes = <<>>
    /\ root = 0
    /\ fault = FALSE
    /\ result = NoResult
    /\ last = [k \in AllKeys |-> NoLoc]
    /\ dup = FALSE
    /\ ninserts = 0
    /\ idxFile = NoFile
    /\ phase = "run"
    /\ saved = [k \in AllKeys |-> Returned(k, Miss)]
    /\ catalog = [t \in {"users"} |-> UsersMeta]
    /\ table_indexes = {}
    /\ table_page_info = [t \in Tables |-> NoInfo]
    /\ datFile = NoFile
    /\ fres = NoCall
    /\ lastRow = [k \in Keys |-> NoRow]
    /\ lru = NoCache
    /\ recency = <<>>
    /\ lres = NoCacheCall
    /\ putPage = [k \in PageIds |-> ""]
    /\ page = new_without_array(PageMeta, PageBytes, PageHeader, 0)
    /\ pageFile = NoFile
    /\ readBack = [present |-> FALSE,
                   raw |-> new_without_array(PageMeta, PageBytes, PageHeader, 0),
                   rows |-> <<>>]
    /\ appended = <<>>
    /\ allFit = TRUE
    /\ storedRows = <<>>
    /\ meta_config = NoTables
    /\ metaFile = [exists |-> TRUE, bytes |-> <<>>]
    /\ handler = NewHandler
    /\ colFile = NoFile
    /\ cres = NoCatalogCall
    /\ created = <<>>
    /\ thr = [t \in Threads |-> IdleThread]
    /\ walk = [t \in Threads |-> IdleWalk]
    /\ lastWrite = NoWrite
    /\ mgr = NewManager
    /\ calls = [t \in Threads |-> NoManagerCall]
    /\ serial = NoSerial
    /\ schemaFile = NoFile
    /\ boot = NoBoot

\* tree.insert(Some(Key::new(k, data::new(loc))))
Insert(k, loc) ==
    /\ ~fault
    /\ phase = "run"
    /\ ninserts < MaxInserts
    /\ \E r \in {insert(nodes, root, Key(k, loc))} :
       /\ nodes' = r.nodes
       /\ root' = r.root
       /\ fault' = r.fault
    /\ result' = NoResult
    /\ last' = [last EXCEPT ![k] = loc]
    /\ dup' = (dup \/ last[k] # NoLoc)
    /\ ninserts' = ninserts + 1
    /\ UNCHANGED <<persistVars, facadeVars, lruVars, pageVars, catVars>>

\* tree.search(k)
Search(k) ==
    /\ ~fault
    /\ \E r \in {search(nodes, root, k)} :
       /\ result' = Returned(k, r)
       /\ fault' = r.fault
    /\ UNCHANGED <<nodes, root, last, dup, ninserts>>
    /\ UNCHANGED <<persistVars, facadeVars, lruVars, pageVars, catVars>>

Next ==
    \/ \E k \in Keys, loc \in Locs : Insert(k, loc)
    \/ \E k \in Keys : Search(k)

Spec == Init /\ [][Next]_vars

\* ------------------------------------------------------------------------
\* Specification SpecBulk: an ascending load (the order in which
\* BTreePersistence::load_btree and a sequential writer insert), which
\* reaches trees of height 3, and search calls on it
\* ------------------------------------------------------------------------
InsertedKeys == {k \in AllKeys : last[k] # NoLoc}

\* k is above every key inserted so far, by one or two
IsNextKey(k) ==
    /\ \A j \in BulkKeys : j >= k => last[j] = NoLoc
    /\ IF k <= 2 THEN TRUE ELSE ~(last[k - 1] = NoLoc /\ last[k - 2] = NoLoc)

\* tree.insert of the next key, or the one after it, at locator (0, ninserts)
BulkInsert(k) ==
    /\ ~fault
    /\ IsNextKey(k)
    /\ \E r \in {insert(nodes, root, Key(k, <<0, ninserts>>))} :
       /\ nodes' = r.nodes
       /\ root' = r.root
       /\ fault' = r.fault
    /\ result' = NoResult
    /\ last' = [last EXCEPT ![k] = <<0, ninserts>>]
    /\ dup' = dup
    /\ ninserts' = ninserts + 1
    /\ UNCHANGED <<persistVars, facadeVars, lruVars, pageVars, catVars>>

NextBulk ==
    \/ \E k \in BulkKeys : BulkInsert(k)
    \/ \E k \in BulkKeys : Search(k)

SpecBulk == Init /\ [][NextBulk]_vars

\* ------------------------------------------------------------------------
\* Specification SpecPersist: inserts, then save_btree, then load_btree in a
\* fresh engine over the same index file
\* ------------------------------------------------------------------------

\* BTreePersistence::save_btree(table, &tree)
Save ==
    /\ ~fault
    /\ phase = "run"
    /\ \E c \in {collect_btree_entries_brute_force(nodes, root)} :
          /\ fault' = c.fault
          /\ idxFile' = IF c.fault THEN idxFile ELSE IndexFileOf(c.entries)
          /\ phase' = IF c.fault THEN phase ELSE "saved"
    /\ saved' = [k \in AllKeys |-> Returned(k, search(nodes, root, k))]
    /\ UNCHANGED <<nodes, root, result, last, dup, ninserts>>
    /\ UNCHANGED <<facadeVars, lruVars, pageVars, catVars>>

\* a new engine: BTreePersistence::load_btree(table)
Load ==
    /\ ~fault
    /\ phase = "saved"
    /\ \E t \in {load_btree(idxFile)} :
          /\ nodes' = t.nodes
          /\ root' = t.root
          /\ fault' = t.fault
    /\ phase' = "loaded"
    /\ UNCHANGED <<result, last, dup, ninserts, idxFile, saved>>
    /\ UNCHANGED <<facadeVars, lruVars, pageVars, catVars>>

NextPersist ==
    \/ \E k \in Keys, loc \in Locs : Insert(k, loc)
    \/ Save
    \/ Load

SpecPersist == Init /\ [][NextPersist]_vars

\* ------------------------------------------------------------------------
\* Specification SpecTruncated: as SpecPersist, and the index file may lose
\* its end between save_btree and load_btree
\* ------------------------------------------------------------------------

\* the lengths the file is cut to: inside the count, and at the end and in
\* the middle of each entry
CutLengths == {0, 2} \cup {4 + 8 * i : i \in 0..(2 * MaxInserts - 1)}

\* the index file, whole so far, is cut to its first n bytes
Truncate(n) ==
    /\ ~fault
    /\ phase = "saved"
    /\ Len(idxFile.bytes) >= 4
    /\ Len(idxFile.bytes) = 4 + 16 * FromLE32(SubSeq(idxFile.bytes, 1, 4))
    /\ n < Len(idxFile.bytes)
    /\ idxFile' = [idxFile EXCEPT !.bytes = SubSeq(@, 1, n)]
    /\ UNCHANGED <<nodes, root, fault, result, last, dup, ninserts, phase, saved>>
    /\ UNCHANGED <<facadeVars, lruVars, pageVars, catVars>>

NextTruncated ==
    \/ \E k \in Keys, loc \in Locs : Insert(k, loc)
    \/ Save
    \/ \E n \in CutLengths : Truncate(n)
    \/ Load

SpecTruncated == Init /\ [][NextTruncated]_vars

\* ------------------------------------------------------------------------
\* Specification SpecFacade: insert and select calls on the query facade,
\* starting with no data file
\* ------------------------------------------------------------------------

\* query_handler.insert(t, k, row)
FacadeInsert(t, k, row) ==
    /\ ~fault
    /\ phase = "run"
    /\ ninserts < MaxFacadeInserts
    /\ \E o \in {TableQueryHandler_insert(t, k, row)} :
          /\ nodes' = o.nodes
          /\ root' = o.root
          /\ fault' = o.fault
          /\ table_indexes' = o.table_indexes
          /\ table_page_info' = o.table_page_info
          /\ datFile' = o.datFile
          /\ fres' = [op |-> "insert", table |-> t, key |-> k, status |-> o.status,
                      err |-> o.err, text |-> <<>>, row |-> row, detail |-> o.detail]
          /\ last' = IF o.status = "Ok" THEN [last EXCEPT ![k] = o.loc] ELSE last
          /\ dup' = IF o.status = "Ok" /\ lastRow[k] # NoRow THEN TRUE ELSE dup
          /\ lastRow' = IF o.status = "Ok" THEN [lastRow EXCEPT ![k] = row] ELSE lastRow
          /\ ninserts' = IF o.status = "Err" THEN ninserts ELSE ninserts + 1
    /\ UNCHANGED <<result, catalog, persistVars, lruVars, pageVars, catVars>>

\* query_handler.select(t, k)
FacadeSelect(t, k) ==
    /\ ~fault
    /\ \E o \in {TableQueryHandler_select(t, k)} :
          /\ fault' = o.fault
          /\ fres' = [op |-> "select", table |-> t, key |-> k, status |-> o.status,
                      err |-> o.err, text |-> o.text, row |-> <<>>,
                      detail |-> NoDetail]
    /\ UNCHANGED <<nodes, root, result, last, dup, ninserts, persistVars, lruVars, pageVars, catVars>>
    /\ UNCHANGED <<catalog, table_indexes, table_page_info, datFile, lastRow>>

NextFacade ==
    \/ \E t \in Tables, k \in Keys, row \in RowInputs : FacadeInsert(t, k, row)
    \/ \E t \in Tables, k \in Keys : FacadeSelect(t, k)

SpecFacade == Init /\ [][NextFacade]_vars

\* ------------------------------------------------------------------------
\* Specification SpecFacadeErrors: the calls of the facade on tables in and
\* out of the catalog, with rows that match the columns and rows that do not
\* ------------------------------------------------------------------------
ErrorKeys == {0, 1}
\* a row too short whose one value is of the wrong type too
ShortWrongRow == <<DataSTRING(<<65>>)>>
ErrorRows == {RowA, ShortRow, WrongRow, ShortWrongRow}

\* query_handler.create_row(t, values)
FacadeCreateRow(t, values) ==
    /\ ~fault
    /\ \E o \in {create_row(catalog, t, values)} :
          fres' = [op |-> "create_row", table |-> t, key |-> 0, status |-> o.status,
                   err |-> o.err, text |-> <<>>, row |-> values, detail |-> NoDetail]
    /\ UNCHANGED <<nodes, root, fault, result, last, dup, ninserts, persistVars, lruVars, pageVars, catVars>>
    /\ UNCHANGED <<catalog, table_indexes, table_page_info, datFile, lastRow>>

NextFacadeErrors ==
    \/ \E t \in Tables, k \in ErrorKeys, row \in ErrorRows : FacadeInsert(t, k, row)
    \/ \E t \in Tables, k \in ErrorKeys : FacadeSelect(t, k)
    \/ \E t \in Tables, values \in ErrorRows : FacadeCreateRow(t, values)

SpecFacadeErrors == Init /\ [][NextFacadeErrors]_vars

\* ------------------------------------------------------------------------
\* Specification SpecLRU: a cache is made, then put (add_element) and get
\* ------------------------------------------------------------------------

\* the keys of the list from the head along next, at most fuel of them
RECURSIVE Walk(_, _, _)
Walk(c, n, fuel) ==
    IF n = 0 \/ fuel = 0 THEN <<>>
    ELSE <<c.lnodes[n].key>> \o Walk(c, c.lnodes[n].next, fuel - 1)
ListKeys(c) == Walk(c, c.head, Cardinality(NodeIds))

DictKeys(c) == {k \in PageIds : c.dict[k] # 0}

\* a sequence without the entries outside S
RECURSIVE Only(_, _)
Only(q, S) ==
    IF q = <<>> THEN <<>>
    ELSE (IF Head(q) \in S THEN <<Head(q)>> ELSE <<>>) \o Only(Tail(q), S)

\* recency after a put or a hit get of key k that leaves the keys S cached
Touched(q, k, S) == Only(q, S \ {k}) \o <<k>>

\* LRUDict::new(capacity)
LruNew(capacity) ==
    /\ ~fault
    /\ ~lru.made
    /\ lru' = new(capacity)
    /\ recency' = <<>>
    /\ lres' = [NoCacheCall EXCEPT !.op = "new"]
    /\ putPage' = [k \in PageIds |-> ""]
    /\ UNCHANGED <<treeVars, persistVars, facadeVars, pageVars, catVars>>

\* cache.add_element(key, value)
LruPut(key, value) ==
    /\ ~fault
    /\ lru.made
    /\ \E c \in {Drop(add_element(lru, key, value))} :
          /\ lru' = [c EXCEPT !.fault = FALSE]
          /\ fault' = c.fault
          /\ recency' = Touched(recency, key, DictKeys(c))
          /\ putPage' = [k \in PageIds |->
                            IF k = key THEN value
                            ELSE IF k \in DictKeys(lru) \ DictKeys(c) THEN ""
                            ELSE putPage[k]]
          /\ lres' = [op |-> "put", key |-> key, hit |-> lru.dict[key] # 0,
                      value |-> value, evicted |-> DictKeys(lru) \ DictKeys(c),
                      moved |-> lru.dict[key] # 0 /\ lru.dict[key] # lru.tail]
    /\ UNCHANGED <<nodes, root, result, last, dup, ninserts, persistVars, facadeVars, pageVars, catVars>>

\* cache.get(key)
LruGet(key) ==
    /\ ~fault
    /\ lru.made
    /\ \E g \in {get(lru, key)} :
          /\ lru' = [Drop(g.c) EXCEPT !.fault = FALSE]
          /\ fault' = g.c.fault
          /\ recency' = IF g.hit THEN Touched(recency, key, DictKeys(g.c)) ELSE recency
          /\ putPage' = putPage
          /\ lres' = [op |-> "get", key |-> key, hit |-> g.hit, value |-> g.value,
                      evicted |-> DictKeys(lru) \ DictKeys(g.c),
                      moved |-> g.hit /\ lru.dict[key] # lru.tail]
    /\ UNCHANGED <<nodes, root, result, last, dup, ninserts, persistVars, facadeVars, pageVars, catVars>>

NextLRU ==
    \/ \E capacity \in 0..MaxCapacity : LruNew(capacity)
    \/ \E key \in PageIds, value \in Pages : LruPut(key, value)
    \/ \E key \in PageIds : LruGet(key)

SpecLRU == Init /\ [][NextLRU]_vars

\* ------------------------------------------------------------------------
\* Specification SpecPage: rows are appended to one slotted page, which is
\* written to the data file and read back
\* ------------------------------------------------------------------------
PageStrings == {<<>>, <<65>>, <<66, 67>>}
PageRows == {get_data_as_bytes(<<DataSTRING(str)>>) : str \in PageStrings}

RECURSIVE TotalLen(_)
TotalLen(rows) == IF rows = <<>> THEN 0 ELSE Len(Head(rows)) + TotalLen(Tail(rows))

\* the precondition of append: slot_array_end_after + len <= new_row_start,
\* for a page of size P and header H that holds the rows before
Fits(P, H, before, row_bytes) ==
    H + OFFSET_SIZE + OFFSET_SIZE * (Len(before) + 1) + Len(row_bytes)
        <= (P - TotalLen(before)) - Len(row_bytes)

\* page.add_new_row(row_bytes)
PageAppend(row_bytes) ==
    /\ ~fault
    /\ Len(appended) < MaxAppends
    /\ \E a \in {add_new_row(page, row_bytes)} :
          /\ page' = a.raw
          /\ fault' = a.fault
    /\ appended' = Append(appended, row_bytes)
    /\ allFit' = (allFit /\ Fits(page.page_size, page.header_size, appended, row_bytes))
    /\ UNCHANGED <<pageFile, readBack, storedRows>>
    /\ UNCHANGED <<nodes, root, result, last, dup, ninserts>>
    /\ UNCHANGED <<persistVars, facadeVars, lruVars, catVars>>

\* File_Handler::write_to_file(&page)
PageWrite ==
    /\ ~fault
    /\ pageFile' = write_to_file(pageFile, page)
    /\ storedRows' = appended
    /\ UNCHANGED <<page, readBack, appended, allFit>>
    /\ UNCHANGED <<treeVars, persistVars, facadeVars, lruVars, catVars>>

\* File_Handler::read_from_file("users", 0, page_size)
PageRead ==
    /\ ~fault
    /\ pageFile.exists
    /\ \E rd \in {read_from_file(pageFile, PageCatalog, "users", page.page_id,
                                 page.page_size)} :
          /\ readBack' = [present |-> ~rd.fault, raw |-> rd.raw, rows |-> storedRows]
          /\ fault' = rd.fault
    /\ UNCHANGED <<page, pageFile, appended, allFit, storedRows>>
    /\ UNCHANGED <<nodes, root, result, last, dup, ninserts>>
    /\ UNCHANGED <<persistVars, facadeVars, lruVars, catVars>>

NextPage ==
    \/ \E row_bytes \in PageRows : PageAppend(row_bytes)
    \/ PageWrite
    \/ PageRead

SpecPage == Init /\ [][NextPage]_vars

\* ------------------------------------------------------------------------
\* Specification SpecCatalog: create-table calls on the catalog of a process,
\* and restarts of the process over the same metadata file
\* ------------------------------------------------------------------------

\* handler.create_table_with_validation(table_name, columns)
CreateTable(table_name, columns) ==
    /\ ~fault
    /\ Len(created) < MaxTables
    /\ \E o \in {create_table_with_validation(meta_config, metaFile, handler, colFile,
                                              table_name, columns)} :
          /\ meta_config' = o.config
          /\ metaFile' = o.file
          /\ handler' = o.handler
          /\ colFile' = o.colFile
          /\ fault' = (o.status = "Panic")
          /\ cres' = [op |-> "create", table_name |-> table_name, columns |-> columns,
                      status |-> o.status, err |-> o.err, table_id |-> o.table_id]
          /\ created' = IF o.status = "Ok" THEN Append(created, o.table_id) ELSE created
    /\ UNCHANGED <<nodes, root, result, last, dup, ninserts>>
    /\ UNCHANGED <<persistVars, facadeVars, lruVars, pageVars, extVars>>

\* a new process: initialize_config loads the metadata file into a fresh
\* TableMetaHandler, and the handler is made anew
Restart ==
    /\ ~fault
    /\ cres.op = "create"
    /\ \E r \in {load_meta_file(metaFile)} :
          /\ meta_config' = r.config
          /\ metaFile' = r.file
          /\ fault' = ~r.ok
          /\ cres' = [op |-> "load", table_name |-> <<>>, columns |-> <<>>,
                      status |-> IF r.ok THEN "Ok" ELSE "Err", err |-> "",
                      table_id |-> 0]
    /\ handler' = NewHandler
    /\ UNCHANGED <<colFile, created>>
    /\ UNCHANGED <<nodes, root, result, last, dup, ninserts>>
    /\ UNCHANGED <<persistVars, facadeVars, lruVars, pageVars, extVars>>

NextCatalog ==
    \/ \E table_name \in TableNames, columns \in ColumnLists :
          CreateTable(table_name, columns)
    \/ Restart

SpecCatalog == Init /\ [][NextCatalog]_vars

\* ------------------------------------------------------------------------
\* Specification SpecThreads: two threads, each with a handler of its own,
\* call create_table_with_validation once on the shared meta_config.  A step
\* is one stretch of the call under the guard of meta_config, or the rest of
\* create_table that takes no lock.
\* ------------------------------------------------------------------------
ThreadFrame ==
    /\ UNCHANGED <<nodes, root, result, last, dup, ninserts, handler, cres>>
    /\ UNCHANGED <<persistVars, facadeVars, lruVars, pageVars, walk, lastWrite, mgrVars, bootVars>>

\* validate_table_creation, then get_table_id under the guard, then drop(guard)
ThreadCheck(t, table_name, columns) ==
    /\ ~fault
    /\ thr[t].pc = "idle"
    /\ thr' = [thr EXCEPT ![t] =
                  IF validate_table_creation(table_name, columns) # "Ok"
                  THEN [@ EXCEPT !.pc = "done", !.table_name = table_name,
                                 !.columns = columns, !.status = "Err",
                                 !.err = validate_table_creation(table_name, columns)]
                  ELSE IF get_table_id_is_some(meta_config, table_name)
                  THEN [@ EXCEPT !.pc = "done", !.table_name = table_name,
                                 !.columns = columns, !.status = "Err",
                                 !.err = "Table already exists"]
                  ELSE [@ EXCEPT !.pc = "checked", !.table_name = table_name,
                                 !.columns = columns]]
    /\ UNCHANGED <<fault, meta_config, metaFile, colFile, created>>
    /\ ThreadFrame

\* create_table: get_next_table_id, under a guard of its own
ThreadAllocate(t) ==
    /\ ~fault
    /\ thr[t].pc = "checked"
    /\ thr' = [thr EXCEPT ![t].pc = "allocated",
                          ![t].table_id = get_next_table_id(meta_config)]
    /\ UNCHANGED <<fault, meta_config, metaFile, colFile, created>>
    /\ ThreadFrame

\* create_table: add_table_meta, under a guard of its own
ThreadAddMeta(t) ==
    /\ ~fault
    /\ thr[t].pc = "allocated"
    /\ \E a \in {add_table(meta_config, metaFile, thr[t].table_id, thr[t].table_name,
                            meta_columns(thr[t].columns))} :
          /\ meta_config' = a.config
          /\ metaFile' = a.file
    /\ thr' = [thr EXCEPT ![t].pc = "added"]
    /\ UNCHANGED <<fault, colFile, created>>
    /\ ThreadFrame

\* create_table: add_table_columns_to_btree and update_table_id_range on the
\* handler of the thread, then Ok(table_id)
ThreadFinish(t) ==
    /\ ~fault
    /\ thr[t].pc = "added"
    /\ \E cb \in {add_table_columns_to_btree(thr[t].handler.table_vs_column_btree,
                                              colFile, thr[t].table_id,
                                              thr[t].columns, 0)} :
       \E rt \in {update_table_id_range(thr[t].handler.table_id_vs_range_btree,
                                         thr[t].table_id)} :
          /\ colFile' = cb.file
          /\ fault' = ~(~cb.fault /\ ~rt.fault)
          /\ thr' = [thr EXCEPT
                        ![t].pc = "done",
                        ![t].status = IF fault' THEN "Panic" ELSE "Ok",
                        ![t].handler =
                            [table_vs_column_btree |-> [cb.tree EXCEPT !.fault = FALSE],
                             table_id_vs_range_btree |->
                                 IF fault' THEN @.table_id_vs_range_btree ELSE rt]]
          /\ created' = IF fault' THEN created ELSE Append(created, thr[t].table_id)
    /\ UNCHANGED <<meta_config, metaFile>>
    /\ ThreadFrame

NextThreads ==
    \/ \E t \in Threads, table_name \in TableNames, columns \in ColumnLists :
          ThreadCheck(t, table_name, columns)
    \/ \E t \in Threads : ThreadAllocate(t)
    \/ \E t \in Threads : ThreadAddMeta(t)
    \/ \E t \in Threads : ThreadFinish(t)

SpecThreads == Init /\ [][NextThreads]_vars

\* ------------------------------------------------------------------------
\* Specification SpecLocks: threads descend a tree with a lock on each node
\* (UniversalBPlusTree.rs), the tree being grown by an ascending load.  A
\* step ends where the thread takes or gives up the lock of a node.  insert
\* takes &mut self, so it runs while no other call is in the tree; search
\* takes &self, so searches of several threads interleave.
\* ------------------------------------------------------------------------
\* keys offered to search in SpecLocks
WalkKeys == {1, MaxBulkKey}

WalkFrame ==
    /\ UNCHANGED <<result, dup, thr, lastWrite, mgrVars, bootVars>>
    /\ UNCHANGED <<persistVars, facadeVars, lruVars, pageVars>>
    /\ UNCHANGED <<meta_config, metaFile, handler, colFile, cres, created>>

\* tree.search(&key): the root handle is cloned and search_rec is entered
SearchCall(t, key) ==
    /\ ~fault
    /\ root # 0
    /\ walk[t].pc = "idle"
    /\ \A u \in Threads : walk[u].op # "insert"
    /\ walk' = [walk EXCEPT ![t] = [op |-> "search", key |-> key, node |-> root,
                                    parent |-> 0, pc |-> "enter", held |-> {}]]
    /\ UNCHANGED <<nodes, root, fault, last, ninserts>>
    /\ WalkFrame

\* search_rec: _binary_search takes the read lock of current and gives it up
\* on return; then let node = current.read()
SearchEnter(t) ==
    /\ ~fault
    /\ walk[t].op = "search"
    /\ walk[t].pc = "enter"
    /\ \E b \in {binary_search(nodes[walk[t].node], walk[t].key)} :
          /\ fault' = b.fault
          /\ walk' = [walk EXCEPT ![t] =
                        IF b.fault THEN IdleWalk
                        ELSE [@ EXCEPT !.pc = "locked", !.held = {walk[t].node}]]
    /\ UNCHANGED <<nodes, root, last, ninserts>>
    /\ WalkFrame

\* search_rec under the read lock of current: a leaf or a missing child
\* returns, which drops the guard; else the child handle is cloned, the
\* guard is dropped (drop(node)) and search_rec is entered for the child
SearchStep(t) ==
    /\ ~fault
    /\ walk[t].op = "search"
    /\ walk[t].pc = "locked"
    /\ \E cur \in {walk[t].node} :
       \E b \in {binary_search(nodes[cur], walk[t].key)} :
          walk' = [walk EXCEPT ![t] =
                     IF nodes[cur].is_leaf THEN IdleWalk
                     ELSE IF b.pos >= Len(nodes[cur].pointers) THEN IdleWalk
                     ELSE IF nodes[cur].pointers[b.pos + 1] = 0 THEN IdleWalk
                     ELSE [@ EXCEPT !.node = nodes[cur].pointers[b.pos + 1],
                                    !.parent = cur, !.pc = "enter", !.held = {}]]
    /\ UNCHANGED <<nodes, root, fault, last, ninserts>>
    /\ WalkFrame

\* tree.insert(Some(Key::new(k, data::new(0, ninserts)))): the root is made
\* if there is none, its handle is cloned and _insert_rec is entered
InsertCall(t, k) ==
    /\ ~fault
    /\ IsNextKey(k)
    /\ \A u \in Threads : walk[u].pc = "idle"
    /\ nodes' = IF root = 0 THEN Append(nodes, NewNode(TRUE)) ELSE nodes
    /\ root' = IF root = 0 THEN Len(nodes) + 1 ELSE root
    /\ walk' = [walk EXCEPT ![t] = [op |-> "insert", key |-> k, node |-> root',
                                    parent |-> 0, pc |-> "enter", held |-> {}]]
    /\ UNCHANGED <<fault, last, ninserts>>
    /\ WalkFrame

\* _insert_rec: { let node = current.read().unwrap(); node.is_leaf }
InsertEnter(t) ==
    /\ ~fault
    /\ walk[t].op = "insert"
    /\ walk[t].pc = "enter"
    /\ walk' = [walk EXCEPT ![t].pc = "locked", ![t].held = {walk[t].node}]
    /\ UNCHANGED <<nodes, root, fault, last, ninserts>>
    /\ WalkFrame

\* _insert_rec: the guard of the block is dropped.  In an internal node
\* _binary_search and the read of pointers[pos] each take the read lock of
\* current and give it up, and _insert_rec is entered for the child with no
\* lock held.  In a leaf, and where the child is missing, the rest of the
\* call follows: add_new_element and the splits up the path, each under the
\* write lock of its one node.
InsertStep(t) ==
    /\ ~fault
    /\ walk[t].op = "insert"
    /\ walk[t].pc = "locked"
    /\ \E cur \in {walk[t].node} :
       \E b \in {binary_search(nodes[cur], walk[t].key)} :
          IF ~nodes[cur].is_leaf /\ ~b.fault /\ b.pos < Len(nodes[cur].pointers)
             /\ nodes[cur].pointers[IF b.pos < Len(nodes[cur].pointers)
                                    THEN b.pos + 1 ELSE 1] # 0
          THEN /\ walk' = [walk EXCEPT ![t].node = nodes[cur].pointers[b.pos + 1],
                                       ![t].parent = cur, ![t].pc = "enter",
                                       ![t].held = {}]
               /\ UNCHANGED <<nodes, root, fault, last, ninserts>>
          ELSE \E r \in {insert(nodes, root, Key(walk[t].key, <<0, ninserts>>))} :
               /\ nodes' = r.nodes
               /\ root' = r.root
               /\ fault' = r.fault
               /\ last' = [last EXCEPT ![walk[t].key] = <<0, ninserts>>]
               /\ ninserts' = ninserts + 1
               /\ walk' = [walk EXCEPT ![t] = IdleWalk]
    /\ WalkFrame

NextLocks ==
    \/ \E t \in Threads, key \in WalkKeys : SearchCall(t, key)
    \/ \E t \in Threads : SearchEnter(t)
    \/ \E t \in Threads : SearchStep(t)
    \/ \E t \in Threads, k \in BulkKeys : InsertCall(t, k)
    \/ \E t \in Threads : InsertEnter(t)
    \/ \E t \in Threads : InsertStep(t)

SpecLocks == Init /\ [][NextLocks]_vars

\* ------------------------------------------------------------------------
\* Specification SpecGrow: pages are written to the data file at page ids in
\* any order, each a fresh page of the table with one row or none
\* ------------------------------------------------------------------------
GrowPageIds == 0..MaxPageId

\* RawData::new_without_array for page_id, then add_new_row for each row of
\* rows (one at most)
GrowPage(page_id, rows) ==
    IF rows = <<>>
    THEN new_without_array(PageMeta, PageBytes, PageHeader, page_id)
    ELSE add_new_row(new_without_array(PageMeta, PageBytes, PageHeader, page_id),
                     rows[1]).raw

\* File_Handler::write_to_file(&raw) for a page raw of page_id
GrowWrite(page_id, rows) ==
    /\ ~fault
    /\ \E raw \in {GrowPage(page_id, rows)} :
          /\ pageFile' = write_to_file(pageFile, raw)
          /\ lastWrite' = [called |-> TRUE, page_id |-> raw.page_id,
                           page_size |-> raw.page_size, data |-> raw.data,
                           before |-> pageFile.bytes]
    /\ UNCHANGED <<page, readBack, appended, allFit, storedRows, thr, walk, mgrVars,
                 bootVars>>
    /\ UNCHANGED <<treeVars, persistVars, facadeVars, lruVars>>
    /\ UNCHANGED <<meta_config, metaFile, handler, colFile, cres, created>>

NextGrow ==
    \E page_id \in GrowPageIds, rows \in {<<>>} \cup {<<r>> : r \in PageRows} :
        GrowWrite(page_id, rows)

SpecGrow == Init /\ [][NextGrow]_vars

\* ------------------------------------------------------------------------
\* Specification SpecSplit: a load of pairwise distinct keys in any order,
\* which splits leaves that have a next leaf and internal nodes
\* ------------------------------------------------------------------------
SplitKeys == 1..MaxSplitKey

\* tree.insert(Some(Key::new(k, data::new(0, k)))) for a key not yet inserted
SplitInsert(k) ==
    /\ ~fault
    /\ last[k] = NoLoc
    /\ \E r \in {insert(nodes, root, Key(k, <<0, k>>))} :
       /\ nodes' = r.nodes
       /\ root' = r.root
       /\ fault' = r.fault
    /\ result' = NoResult
    /\ last' = [last EXCEPT ![k] = <<0, k>>]
    /\ dup' = dup
    /\ ninserts' = ninserts + 1
    /\ UNCHANGED <<persistVars, facadeVars, lruVars, pageVars, catVars>>

NextSplit == \E k \in SplitKeys : SplitInsert(k)

SpecSplit == Init /\ [][NextSplit]_vars

\* ------------------------------------------------------------------------
\* Specification SpecManager: two threads call register_table,
\* insert_into_table and search_in_table.  with_btree_manager takes the
\* mutex of BTREE_MANAGER, runs the call on the manager and drops the guard
\* on return; a step is the taking of the mutex, or the call and the return.
\* ------------------------------------------------------------------------
ManagerKeys == {TableKeyInt(v) : v \in 1..3} \cup {TableKeyString(1)}
KeyTypes == {"INTEGER", "STRING"}
ManagerCalls ==
    {[op |-> "register", table_id |-> id, key_type |-> ty, key |-> TableKeyInt(0)]
        : id \in ManagerTableIds, ty \in KeyTypes} \cup
    {[op |-> o, table_id |-> id, key_type |-> "", key |-> k]
        : o \in {"insert", "search"}, id \in ManagerTableIds, k \in ManagerKeys}

ManagerFrame ==
    /\ UNCHANGED <<persistVars, facadeVars, lruVars, pageVars>>
    /\ UNCHANGED <<meta_config, metaFile, handler, colFile, cres, created>>
    /\ UNCHANGED <<thr, walk, lastWrite, bootVars>>

\* with_btree_manager: BTREE_MANAGER.lock() returns the guard.  A call that
\* writes (register, insert) is in the manager from here to its return.
ManagerEnter(t, c) ==
    /\ ~fault
    /\ serial.n < MaxManagerCalls
    /\ calls[t].pc = "idle"
    /\ c.op = "register" => ~mgr.table_trees[c.table_id].registered
    /\ lock(mgr.holder)
    /\ \E s \in {ManagerCall(serial.table_trees, c)} :
          /\ serial' = [serial EXCEPT !.table_trees = s.trees, !.n = @ + 1]
          /\ calls' = [calls EXCEPT ![t] =
                          [pc |-> "locked", op |-> c.op, table_id |-> c.table_id,
                           key_type |-> c.key_type, key |-> c.key,
                           res |-> NoManagerResult, expect |-> s.res]]
    /\ mgr' = [mgr EXCEPT !.holder = t,
                          !.writer = IF c.op = "search" THEN @ ELSE t]
    /\ UNCHANGED <<nodes, root, fault, result, last, dup, ninserts>>
    /\ ManagerFrame

\* the closure runs on the manager and with_btree_manager returns, which
\* drops the guard
ManagerReturn(t) ==
    /\ ~fault
    /\ calls[t].pc = "locked"
    /\ \E m \in {ManagerCall(mgr.table_trees, calls[t])} :
          /\ mgr' = [holder |-> 0,
                     writer |-> IF mgr.writer = t THEN 0 ELSE mgr.writer,
                     table_trees |-> m.trees]
          /\ calls' = [calls EXCEPT ![t].pc = "idle", ![t].res = m.res]
          /\ fault' = m.res.fault
    /\ serial' = [serial EXCEPT !.torn = IF mgr.writer = 0 THEN @
                                         ELSE IF mgr.writer = t THEN @ ELSE TRUE]
    /\ UNCHANGED <<nodes, root, result, last, dup, ninserts>>
    /\ ManagerFrame

NextManager ==
    \/ \E t \in Threads, c \in ManagerCalls : ManagerEnter(t, c)
    \/ \E t \in Threads : ManagerReturn(t)

SpecManager == Init /\ [][NextManager]_vars

\* ------------------------------------------------------------------------
\* Specification SpecBoot: the schema file is loaded, tables are created
\* while the metadata file can or cannot be appended to, the process restarts
\* ------------------------------------------------------------------------
BootNames == {<<97>>, TableIdVsRange}
BootColumns == {ColsPlain, ColsEmpty}

\* config.load_table_schema_meta()
Bootstrap ==
    /\ ~fault
    /\ boot.runs < MaxBoots
    /\ \E r \in {load_table_schema_meta(meta_config.table_id, schemaFile)} :
          /\ meta_config' = [meta_config EXCEPT !.table_id = r.table_id]
          /\ schemaFile' = r.file
          /\ cres' = [op |-> "bootstrap", table_name |-> <<>>, columns |-> <<>>,
                      status |-> IF r.ok THEN "Ok" ELSE "Err", err |-> "",
                      table_id |-> 0]
    /\ boot' = [runs |-> boot.runs + 1, seeded |-> ~schemaFile.exists]
    /\ UNCHANGED <<metaFile, handler, colFile, created>>
    /\ UNCHANGED <<treeVars, persistVars, facadeVars, lruVars, pageVars>>
    /\ UNCHANGED <<thr, walk, lastWrite, mgrVars>>

\* handler.create_table_with_validation(table_name, columns) while the
\* metadata file cannot be opened for append
CreateTableAppendFails(table_name, columns) ==
    /\ ~fault
    /\ Len(created) < MaxTables
    /\ \E o \in {create_table_append_fails(meta_config, metaFile, handler, colFile,
                                           table_name, columns)} :
          /\ meta_config' = o.config
          /\ metaFile' = o.file
          /\ handler' = o.handler
          /\ colFile' = o.colFile
          /\ cres' = [op |-> "create", table_name |-> table_name, columns |-> columns,
                      status |-> o.status, err |-> o.err, table_id |-> o.table_id]
    /\ UNCHANGED created
    /\ UNCHANGED <<treeVars, persistVars, facadeVars, lruVars, pageVars, extVars>>

NextBoot ==
    \/ Bootstrap
    \/ \E table_name \in BootNames, columns \in BootColumns :
          CreateTable(table_name, columns)
    \/ \E table_name \in BootNames, columns \in BootColumns :
          CreateTableAppendFails(table_name, columns)
    \/ Restart

SpecBoot == Init /\ [][NextBoot]_vars

\* ------------------------------------------------------------------------
\* Observations of a tree
\* ------------------------------------------------------------------------
Children(node) == {node.pointers[i] : i \in {j \in 1..Len(node.pointers) : node.pointers[j] # 0}}

\* the nodes reachable from cur through child pointers, each with its depth
RECURSIVE Reach(_, _, _)
Reach(ns, cur, d) ==
    {<<cur, d>>} \cup
    (IF ns[cur].is_leaf THEN {}
     ELSE UNION {Reach(ns, c, d + 1) : c \in Children(ns[cur])})

TreeNodes == IF root = 0 THEN {} ELSE Reach(nodes, root, 0)
TreeLeaves == {nd \in TreeNodes : nodes[nd[1]].is_leaf}

\* number of (key, locator) entries held in the leaves
RECURSIVE SumLen(_)
SumLen(S) ==
    IF S = {} THEN 0
    ELSE LET x == CHOOSE y \in S : TRUE IN Len(nodes[x[1]].keys) + SumLen(S \ {x})

LeafEntryCount == SumLen(TreeLeaves)

\* the entries of the leaves as (leaf, position) places
LeafPlaces == {<<nd[1], i>> : nd \in TreeLeaves, i \in 1..MAX_KEYS + 1} \cap
              {pl \in (1..Len(nodes)) \X (1..MAX_KEYS + 1) : pl[2] <= Len(nodes[pl[1]].keys)}

KeyAt(pl) == nodes[pl[1]].keys[pl[2]].key

NoKeyTwice == \A p, q \in LeafPlaces : p # q => KeyAt(p) # KeyAt(q)

StrictlyAscending(ks) == \A i \in 1..(Len(ks) - 1) : ks[i].key < ks[i + 1].key

\* what search is to return for k by the history of inserts
Expected(k) == [called |-> TRUE, key |-> k, hit |-> last[k] # NoLoc, loc |-> last[k]]

\* what search returns for k in the current tree
Found(k) == Returned(k, search(nodes, root, k))

\* ------------------------------------------------------------------------
\* Claims about the B+ tree
\* ------------------------------------------------------------------------

\* all inserts so far had pairwise distinct keys and none panicked
DistinctInserts == ~dup /\ ~fault

\* C1: index round-trip.  After inserts with pairwise distinct keys into an
\* empty tree, search(k) returns the locator inserted for k for every
\* inserted key k (promoted separators included) and a miss for every key
\* never inserted.
C1_IndexRoundTrip ==
    DistinctInserts =>
        \A k \in AllKeys : ~search(nodes, root, k).fault /\ Found(k) = Expected(k)

\* key k is held by some leaf of the tree
Present(k) == \E pl \in LeafPlaces : KeyAt(pl) = k

\* C3: last-write-wins.  insert(k, L2) of a key k already present replaces
\* the stored locator: afterwards search(k) = L2, the number of entries held
\* in the leaves is unchanged, and no key occurs twice in the tree.
C3_LastWriteWins ==
    [][\A k \in Keys, loc \in Locs :
          (Present(k) /\ NoKeyTwice /\ Insert(k, loc)) =>
              /\ Found(k)' = [called |-> TRUE, key |-> k, hit |-> TRUE, loc |-> loc]
              /\ LeafEntryCount' = LeafEntryCount
              /\ NoKeyTwice']_vars

LeafDepths == {nd[2] : nd \in TreeLeaves}

\* C5: structural invariant.  All leaves are at the same depth, every
\* non-root node holds between MIN_KEYS = 1 and MAX_KEYS = 3 keys, and the
\* keys within every node are strictly ascending.
C5_Structure ==
    /\ Cardinality(LeafDepths) <= 1
    /\ \A nd \in TreeNodes :
          /\ nd[1] # root => Len(nodes[nd[1]].keys) \in 1..MAX_KEYS
          /\ StrictlyAscending(nodes[nd[1]].keys)

\* C5 for inserts with pairwise distinct keys
C5_StructureDistinct == DistinctInserts => C5_Structure

\* C6: no out-of-bounds access.  In every tree reachable by inserts, no
\* insert has panicked and search(k) completes without a fault for every
\* key k.
C6_NoOutOfBounds ==
    /\ ~fault
    /\ \A k \in AllKeys : ~search(nodes, root, k).fault

\* ------------------------------------------------------------------------
\* Claims about the checkpoint
\* ------------------------------------------------------------------------

\* C7: checkpoint/restore round-trip.  After save_btree and load_btree in a
\* fresh engine, search(k) returns for every key k what it returned before
\* the save: the same locator on a hit, a miss on a miss.
C7_CheckpointRoundTrip ==
    phase = "loaded" =>
        /\ ~fault
        /\ \A k \in AllKeys : Found(k) = saved[k]

\* ------------------------------------------------------------------------
\* Claims about the query facade
\* ------------------------------------------------------------------------

\* the text data_as_str gives for the values of a row
RECURSIVE RowText(_)
RowText(row) ==
    IF row = <<>> THEN <<>>
    ELSE (IF Head(row).type = "INTEGER"
          THEN TextINTEGER \o Decimal(Head(row).int) \o TextSep
          ELSE TextSTRING \o Head(row).str \o TextSep) \o RowText(Tail(row))

Selected(k) == TableQueryHandler_select("users", k)
SelectsRow(k, row) == Selected(k).status = "Hit" /\ Selected(k).text = RowText(row)

\* C2: facade insert/select round-trip.  After successful inserts with
\* distinct keys into a table of the catalog, starting with no data file,
\* select(k) returns the decoded fields of the row inserted under k, and
\* select of a key never inserted is a miss.
C2_FacadeRoundTrip ==
    (~dup /\ ~fault /\ "users" \in table_indexes) =>
        \A k \in Keys :
            IF lastRow[k] = NoRow THEN Selected(k).status = "Miss"
            ELSE SelectsRow(k, lastRow[k])

\* C4: facade last-write-wins.  After insert(k, rowA) and then
\* insert(k, rowB) with the same primary key, select(k) returns the decoded
\* fields of rowB.
C4_FacadeLastWriteWins ==
    [][\A k \in Keys, row \in ValidRows :
          (lastRow[k] # NoRow /\ FacadeInsert("users", k, row) /\ fres'.status = "Ok")
              => SelectsRow(k, row)']_vars

\* ------------------------------------------------------------------------
\* Claims about the LRU cache
\* ------------------------------------------------------------------------

\* the nodes of the list from the head along next, at most fuel of them
RECURSIVE WalkNodes(_, _, _)
WalkNodes(c, n, fuel) ==
    IF n = 0 \/ fuel = 0 THEN {}
    ELSE {n} \cup WalkNodes(c, c.lnodes[n].next, fuel - 1)
ListNodes(c) == WalkNodes(c, c.head, Cardinality(NodeIds))

LiveNodes(c) == {n \in NodeIds : c.lnodes[n].live}
ValueOf(c, k) == c.lnodes[c.dict[k]].value

LruStructure(c) ==
    /\ DictLen(c) = Len(ListKeys(c))
    /\ Len(ListKeys(c)) = Cardinality(ListNodes(c))
    /\ DictLen(c) <= c.capacity
    /\ \A n \in LiveNodes(c) : n \in ListNodes(c) <=> c.dict[c.lnodes[n].key] = n
    /\ \A k \in DictKeys(c) : c.dict[k] \in ListNodes(c) /\ c.lnodes[c.dict[k]].key = k
    /\ (c.head = 0) <=> (DictLen(c) = 0)
    /\ (c.tail = 0) <=> (DictLen(c) = 0)

\* C8: LRU structural invariant.  In every state reached by put and get on a
\* cache of capacity C, the map and the list hold the same number of entries,
\* at most C; a node is in the list iff its key is in the map; head and tail
\* are None exactly when the cache is empty.
C8_LruStructure == lru.made => LruStructure(lru)

\* the same for the caches made with a capacity of at least one
C8_LruStructureFromOne == (lru.made /\ lru.capacity >= 1) => LruStructure(lru)

\* what a put of key did to the entries: the keys of S left the map and the
\* list, key is cached, every other entry is kept with its page
EvictsExactly(key, S) ==
    /\ DictKeys(lru') = (DictKeys(lru) \ S) \cup {key}
    /\ {ListKeys(lru')[i] : i \in 1..Len(ListKeys(lru'))} = DictKeys(lru')
    /\ Len(ListKeys(lru')) = DictLen(lru')
    /\ \A k \in DictKeys(lru) \ (S \cup {key}) : ValueOf(lru', k) = ValueOf(lru, k)

\* the key whose last put or hit get is oldest
Oldest == {recency[i] : i \in {j \in 1..Len(recency) : j = 1}}

MovedToTail(key) ==
    /\ lru'.tail # 0
    /\ lru'.lnodes[lru'.tail].key = key
    /\ ListKeys(lru') # <<>>
    /\ ListKeys(lru')[Len(ListKeys(lru'))] = key
    /\ Only(ListKeys(lru'), PageIds \ {key}) =
           Only(ListKeys(lru), DictKeys(lru') \ {key})

StoredPages(c) == [k \in PageIds |-> IF c.dict[k] # 0 THEN ValueOf(c, k) ELSE ""]

\* C11: LRU lookup.  get(k) returns a copy of the page most recently put
\* under k when k has been put and not evicted since, and nothing otherwise;
\* a miss changes neither the map, the stored pages nor the recency order; a
\* hit changes only the recency order: the keys and the stored pages stay.
C11_LruLookup ==
    [][\A key \in PageIds :
          LruGet(key) =>
              IF putPage[key] # ""
              THEN /\ lres'.hit
                   /\ lres'.value = putPage[key]
                   /\ DictKeys(lru') = DictKeys(lru)
                   /\ StoredPages(lru') = StoredPages(lru)
              ELSE /\ ~lres'.hit
                   /\ lres'.value = ""
                   /\ lru' = lru
                   /\ ListKeys(lru') = ListKeys(lru)]_vars

\* a get has hit a key that was not the tail and whose page differs from the
\* page of the tail before the call
C11_Witness ==
    /\ lres.op = "get" /\ lres.hit /\ lres.moved
    /\ lres.value = putPage[lres.key]
    /\ \E k \in DictKeys(lru) : ValueOf(lru, k) # lres.value

\* ------------------------------------------------------------------------
\* Claims about the slotted page
\* ------------------------------------------------------------------------

\* the row count and slot i (from 0) stored in a page
RowCount(raw) == ReadI32(raw.data, raw.header_size)
SlotOf(raw, i) == ReadI32(raw.data, raw.header_size + OFFSET_SIZE + i * OFFSET_SIZE)

\* the end of the last row of a page: its last slot, or P for an empty page
RowsStart(raw) == IF RowCount(raw) = 0 THEN raw.page_size
                  ELSE SlotOf(raw, RowCount(raw) - 1)

\* C12: append postcondition.  An append that fits, after appends that all
\* fit, increments the row count at byte H by one, writes as the new last
\* slot the end of the previous row (P for the first row) minus the length of
\* the row, stores the row bytes there, and leaves the earlier slots and the
\* earlier rows' bytes unchanged; after N appends of total length T the row
\* count is N and the rows occupy [P - T, P).
C12_AppendPostcondition ==
    [][\A row_bytes \in PageRows :
          (/\ PageAppend(row_bytes)
           /\ allFit
           /\ Fits(page.page_size, page.header_size, appended, row_bytes))
          => /\ ~fault'
             /\ RowCount(page') = RowCount(page) + 1
             /\ RowCount(page') = Len(appended')
             /\ SlotOf(page', RowCount(page)) = RowsStart(page) - Len(row_bytes)
             /\ SlotOf(page', RowCount(page)) = page.page_size - TotalLen(appended')
             /\ SubSeq(page'.data, RowsStart(page') + 1,
                       RowsStart(page') + Len(row_bytes)) = row_bytes
             /\ \A i \in 0..(RowCount(page) - 1) : SlotOf(page', i) = SlotOf(page, i)
             /\ SubSeq(page'.data, RowsStart(page) + 1, page.page_size) =
                    SubSeq(page.data, RowsStart(page) + 1, page.page_size)]_vars

\* three rows were appended to the page, each meeting the precondition
C12_Witness ==
    /\ allFit /\ ~fault
    /\ Len(appended) = 3
    /\ RowCount(page) = 3

\* the slot values decrease strictly and the slot array ends at or before
\* the last row
SlotDiscipline(raw) ==
    /\ \A i \in 0..(RowCount(raw) - 2) : SlotOf(raw, i) > SlotOf(raw, i + 1)
    /\ RowCount(raw) > 0 =>
           raw.header_size + OFFSET_SIZE + OFFSET_SIZE * RowCount(raw)
               <= SlotOf(raw, RowCount(raw) - 1)

\* C13: slot-array discipline.  After any N appends to a page the row count
\* is N, slot[0] > slot[1] > ... > slot[N-1], and H + 4 + 4N <= slot[N-1]:
\* the slot array never overlaps row bytes.
C13_SlotDiscipline ==
    ~fault => (RowCount(page) = Len(appended) /\ SlotDiscipline(page))

\* C13 for pages whose appends all met the precondition of append
C13_SlotDisciplineFit ==
    (~fault /\ allFit) => (RowCount(page) = Len(appended) /\ SlotDiscipline(page))

\* the text data_as_str gives for a row of PageRows: its string
PageRowText(row_bytes) ==
    TextSTRING \o SubSeq(row_bytes, OFFSET_SIZE + 1, Len(row_bytes)) \o TextSep

\* the byte range data_as_str reads for row i (from 0)
RowBytesAt(raw, i) ==
    SubSeq(raw.data, SlotOf(raw, i) + 1,
           IF i = 0 THEN raw.page_size ELSE SlotOf(raw, i - 1))

\* decoding row i of raw yields the bytes of rows[i], for every i
DecodesRows(raw, rows) ==
    /\ RowCount(raw) = Len(rows)
    /\ \A i \in 0..(Len(rows) - 1) :
          /\ RowBytesAt(raw, i) = rows[i + 1]
          /\ data_as_str(raw, i) = TextOk(PageRowText(rows[i + 1]))

\* C14, the page in memory: decoding row i yields the bytes of append i
C14_RoundTripInMemory == (allFit /\ ~fault) => DecodesRows(page, appended)

\* C14: slotted-page round-trip.  For appends that fit, decoding row i yields
\* the bytes appended at append i, on the page in memory and on the page
\* written to the data file and read back.
C14_PageRoundTrip ==
    (allFit /\ ~fault) =>
        /\ DecodesRows(page, appended)
        /\ readBack.present => DecodesRows(readBack.raw, readBack.rows)

\* this step is an append of row_bytes that does not fit the page
AppendsUnfit ==
    /\ Len(appended') = Len(appended) + 1
    /\ ~Fits(page.page_size, page.header_size, appended, appended'[Len(appended')])

\* C15: page append overflow is fatal, never silent.  An append whose row does
\* not fit is rejected: it fails and leaves the page bytes, the slot array and
\* the row count as they were.
C15_OverflowRejected ==
    [][AppendsUnfit => (fault' /\ page' = page)]_vars

\* the page TableQueryHandler::insert appends to for table t, and its cursor
CursorOf(info, t) == IF info[t].present THEN info[t].page_id ELSE 0
TailPage(t) == CurrentPage(datFile, catalog, t, CursorOf(table_page_info, t))

\* the row would start below the end of the slot array of raw after the append
Overflows(raw, row_bytes) ==
    RowsStart(raw) - Len(row_bytes)
        < raw.header_size + OFFSET_SIZE + OFFSET_SIZE * (RowCount(raw) + 1)

\* this step is an insert of a valid row that does not fit the tail page
InsertOverflows ==
    /\ fres'.op = "insert"
    /\ fres'.table \in DOMAIN catalog
    /\ validate_row_data(catalog[fres'.table], fres'.row).err = "Ok"
    /\ Overflows(TailPage(fres'.table), get_data_as_bytes(fres'.row))

\* the insert went to a fresh page with the next page_id
AdvancedPage ==
    /\ fres'.status = "Ok"
    /\ CursorOf(table_page_info', fres'.table)
           = CursorOf(table_page_info, fres'.table) + 1
    /\ last'[fres'.key][1] = CursorOf(table_page_info', fres'.table)

\* the insert was refused and changed nothing
RefusedTooLarge ==
    /\ fres'.status = "Err"
    /\ fres'.err = "RowTooLarge"
    /\ UNCHANGED <<datFile, nodes, root, table_page_info>>

\* C16: facade page overflow handling.  An insert whose row does not fit the
\* current tail page either goes to a fresh page with the next page_id, the
\* cursor advancing to it, or (the row fitting no fresh page) reports
\* RowTooLarge and leaves the data file, the index and the cursor unchanged.
C16_FacadeOverflow ==
    [][InsertOverflows =>
          IF Overflows(new_without_array(catalog[fres'.table], PAGE_SIZE, HEADER_SIZE, 0),
                       get_data_as_bytes(fres'.row))
          THEN RefusedTooLarge ELSE AdvancedPage]_vars

\* ------------------------------------------------------------------------
\* Catalog claims
\* ------------------------------------------------------------------------

\* every id the catalog holds, under a name or over a column list
AllIds(c) == DOMAIN c.table_id_meta \cup {c.table_id[n] : n \in DOMAIN c.table_id}

\* this step is a create-table call that returned Ok
CreatedTable ==
    /\ cres'.op = "create"
    /\ cres'.status = "Ok"
    /\ created' = Append(created, cres'.table_id)

StrictlyIncreasing(ids) == \A i \in 1..(Len(ids) - 1) : ids[i] < ids[i + 1]

RECURSIVE FileRecords(_, _)
FileRecords(buf, off) ==
    IF off + 12 > Len(buf) THEN <<>>
    ELSE <<[table_id |-> FromLE32(SubSeq(buf, off + 5, off + 8)),
            table_name |-> SubSeq(buf, off + 13,
                                  off + 12 + FromLE32(SubSeq(buf, off + 9, off + 12)))]>>
         \o FileRecords(buf, off + 4 + FromLE32(SubSeq(buf, off + 1, off + 4)))

\* each name has one id and one record, and each id one name and one column list
CatalogUnique(c, f) ==
    /\ \A n1, n2 \in DOMAIN c.table_id : c.table_id[n1] = c.table_id[n2] => n1 = n2
    /\ DOMAIN c.table_id_meta = {c.table_id[n] : n \in DOMAIN c.table_id}
    /\ LET recs == FileRecords(f.bytes, 0)
       IN  /\ Len(recs) = Cardinality(DOMAIN c.table_id)
           /\ \A i \in 1..Len(recs) :
                 /\ recs[i].table_name \in DOMAIN c.table_id
                 /\ c.table_id[recs[i].table_name] = recs[i].table_id

\* this step is a create-table call of a valid table whose name is in the catalog
CreatesExistingName ==
    /\ cres'.op = "create"
    /\ validate_table_creation(cres'.table_name, cres'.columns) = "Ok"
    /\ cres'.table_name \in DOMAIN meta_config.table_id

InvalidSchema(table_name, columns) ==
    \/ table_name = <<>>
    \/ Len(columns) = 0
    \/ \E i, j \in 1..Len(columns) :
          i # j /\ columns[i].column_name = columns[j].column_name
    \/ \E i, j \in 1..Len(columns) :
          i # j /\ columns[i].is_primary /\ columns[j].is_primary

\* the errors of validate_table_creation
InvalidSchemaErrors ==
    {"Table name cannot be empty", "Table must have at least one column",
     "Duplicate column name", "Table cannot have multiple primary key columns"}

LengthsInI32(c) ==
    \A id \in DOMAIN c.table_id_meta : \A i \in 1..Len(c.table_id_meta[id]) :
        c.table_id_meta[id][i].type = "STRING" =>
            c.table_id_meta[id][i] =
                to_meta_enum(5, from_meta_enum(c.table_id_meta[id][i]).string_length)

\* C20: catalog persistence round-trip.  A fresh catalog that loads the
\* metadata file has the name-to-id and id-to-columns maps of the catalog
\* that wrote it.
C20_CatalogRoundTrip ==
    [][cres'.op = "load" => (cres'.status = "Ok" /\ meta_config' = meta_config)]_vars

\* C20 for catalogs whose STRING lengths are all in the range of i32
C20_CatalogRoundTripI32 ==
    [][(cres'.op = "load" /\ LengthsInI32(meta_config)) =>
          (cres'.status = "Ok" /\ meta_config' = meta_config)]_vars

\* ------------------------------------------------------------------------
\* Threads on the catalog
\* ------------------------------------------------------------------------

\* what thread t sees of its call
Seen(t) == [status |-> thr[t].status, err |-> thr[t].err,
            table_id |-> IF thr[t].status = "Ok" THEN thr[t].table_id ELSE 0]

\* the catalog, the metadata file and what each call returns when the call
\* of thread t1 runs to its end on the empty catalog and then the call of t2
SerialOutcome(t1, t2) ==
    LET first == create_table_with_validation(
                     NoTables, [exists |-> TRUE, bytes |-> <<>>], NewHandler, NoFile,
                     thr[t1].table_name, thr[t1].columns)
        second == create_table_with_validation(
                      first.config, first.file, NewHandler, first.colFile,
                      thr[t2].table_name, thr[t2].columns)
    IN  [config |-> second.config, file |-> second.file,
         seen |-> (t1 :> [status |-> first.status, err |-> first.err,
                          table_id |-> first.table_id])
                  @@ (t2 :> [status |-> second.status, err |-> second.err,
                             table_id |-> second.table_id])]

BothDone == \A t \in Threads : thr[t].pc = "done"

\* C21: concurrent catalog access is serialised.  When the create-table
\* calls of two threads have both returned, the catalog, the metadata file
\* and the two results are those of running the two calls one after the
\* other in one of the two orders.
C21_Serialised ==
    BothDone =>
        \E t1 \in Threads : \E t2 \in Threads \ {t1} :
            [config |-> meta_config, file |-> metaFile,
             seen |-> [t \in Threads |-> Seen(t)]] = SerialOutcome(t1, t2)

\* ------------------------------------------------------------------------
\* Errors of the facade
\* ------------------------------------------------------------------------

\* C22: select on a table that has no tree in this engine reports the
\* table-not-found error; it never returns a miss or a row.
C22_SelectWithoutTree ==
    (fres.op = "select" /\ ~(fres.table \in table_indexes)) =>
        /\ fres.status = "Err"
        /\ fres.err = "not found or has no data"
        /\ fres.text = <<>>

C22_Witness ==
    /\ fres.op = "select"
    /\ fres.table = "ghost"
    /\ fres.status = "Err"
    /\ "users" \in table_indexes
    /\ root # 0

\* what insert may change: the trees, the cursors, the data file
InsertTouches == <<table_indexes, table_page_info, datFile, nodes, root, last, lastRow>>

\* C23: insert for a table that is not in the catalog returns the
\* table-not-found error and changes nothing: no tree, no cursor, no data
\* file for that name.
C23_InsertUnknownTable ==
    [][(fres'.op = "insert" /\ ~(fres'.table \in DOMAIN catalog)) =>
          /\ fres'.status = "Err"
          /\ fres'.err = "Table not found"
          /\ UNCHANGED InsertTouches]_vars

C23_Witness ==
    /\ fres.op = "insert"
    /\ fres.table = "ghost"
    /\ fres.err = "Table not found"
    /\ ~("ghost" \in table_indexes)
    /\ ~table_page_info["ghost"].present
    /\ datFile.exists

\* the positions (from 1) that the row and the columns both have and where
\* the kind of the value is not the kind of the column
KindDiffers(table_meta, row) ==
    {i \in 1..Len(row) : i <= Len(table_meta) /\ table_meta[i].type # row[i].type}

First(S) == CHOOSE i \in S : \A j \in S : i <= j

\* this step is an insert, into a table of the catalog, of a row that does
\* not match the columns
InsertsMismatch ==
    /\ fres'.op = "insert"
    /\ fres'.table \in DOMAIN catalog
    /\ ~(/\ Len(fres'.row) = Len(catalog[fres'.table])
         /\ KindDiffers(catalog[fres'.table], fres'.row) = {})

\* the error names column i (from 1) and the kinds expected and got there
NamesColumn(i) ==
    /\ fres'.err = "Type mismatch"
    /\ fres'.detail.column = i - 1
    /\ fres'.detail.expected.type = catalog[fres'.table][i].type
    /\ fres'.detail.got.type = fres'.row[i].type

\* C24 as stated: a row with the wrong number of values, or a value of the
\* wrong kind at some position, is rejected before any write with an error
\* that names the first offending column and the kinds expected and got.
C24_MismatchNamesColumn ==
    [][InsertsMismatch =>
          /\ fres'.status = "Err"
          /\ UNCHANGED InsertTouches
          /\ KindDiffers(catalog[fres'.table], fres'.row) # {} =>
                NamesColumn(First(KindDiffers(catalog[fres'.table], fres'.row)))]_vars

\* C24, amended: a row with the wrong number of values is rejected with an
\* error that gives the numbers of columns expected and got; a row with the
\* right number of values and a value of the wrong kind is rejected with an
\* error that names the first offending column and the kinds expected and
\* got; both before any page write, index insert or cursor update.
C24_RowValidation ==
    [][InsertsMismatch =>
          /\ fres'.status = "Err"
          /\ UNCHANGED InsertTouches
          /\ IF Len(fres'.row) # Len(catalog[fres'.table])
             THEN /\ fres'.err = "Column count mismatch"
                  /\ fres'.detail.expected.size = Len(catalog[fres'.table])
                  /\ fres'.detail.got.size = Len(fres'.row)
             ELSE NamesColumn(First(KindDiffers(catalog[fres'.table], fres'.row)))]_vars

C24_Witness ==
    /\ fres.op = "insert"
    /\ fres.table = "users"
    /\ fres.row = WrongRow
    /\ fres.err = "Type mismatch"
    /\ fres.detail.column = 0
    /\ datFile.exists

\* C25: create_row returns an error when the number of values is not the
\* number of columns or a value is not of the kind of its column, and a row
\* only when both checks pass.
C25_CreateRowValidates ==
    (fres.op = "create_row" /\ fres.table \in DOMAIN catalog) =>
        (fres.status = "Ok" <=>
            /\ Len(fres.row) = Len(catalog[fres.table])
            /\ KindDiffers(catalog[fres.table], fres.row) = {})

\* the file is shorter than its count of entries says, or than the count
Truncated(f) ==
    /\ f.exists
    /\ IF Len(f.bytes) < 4 THEN TRUE
       ELSE FromLE32(SubSeq(f.bytes, 1, 4)) > (Len(f.bytes) - 4) \div 16

\* C26: loading a truncated index file reports an error; load_btree never
\* returns a tree, empty or partly filled, for it.
C26_TruncatedIndexFile == phase = "loaded" => ~Truncated(idxFile)

\* a thread has read the child pointer in the node it came from and has not
\* yet taken the lock of the child
BetweenNodes(t) == walk[t].pc = "enter" /\ walk[t].parent # 0

\* C27: lock coupling in search and insert.  A thread that has read the
\* child pointer and has not yet locked the child still holds the lock of the
\* parent: the parent's lock is given up only after the child's is taken.
C27_LockCoupling ==
    \A t \in Threads : BetweenNodes(t) => walk[t].parent \in walk[t].held

\* page q (from 0) of the bytes b of a file of pages of P bytes
PageOf(b, q, P) == SubSeq(b, q * P + 1, (q + 1) * P)

\* the pages that a file of bytes b holds whole
WholePages(b, P) == 0..((Len(b) \div P) - 1)

\* C28: data file growth.  After write_to_file of a page the length of the
\* file is a multiple of the page size and at least (page_id + 1) pages, the
\* bytes of page page_id are the page written, and every other page the file
\* held before has the bytes it had.
C28_FileGrowth ==
    lastWrite.called =>
        LET P == lastWrite.page_size
            f == pageFile.bytes
        IN  /\ Len(f) % P = 0
            /\ Len(f) >= (lastWrite.page_id + 1) * P
            /\ PageOf(f, lastWrite.page_id, P) = lastWrite.data
            /\ \A q \in WholePages(lastWrite.before, P) :
                  q # lastWrite.page_id => PageOf(f, q, P) = PageOf(lastWrite.before, q, P)

\* a page in the middle of a file of three pages has been written over with
\* other bytes, both neighbours holding a row
C28_Witness ==
    /\ lastWrite.called
    /\ lastWrite.page_id = 1
    /\ Len(lastWrite.before) = 3 * lastWrite.page_size
    /\ PageOf(lastWrite.before, 1, lastWrite.page_size) # lastWrite.data
    /\ PageOf(pageFile.bytes, 0, lastWrite.page_size) # Zeros(lastWrite.page_size)
    /\ PageOf(pageFile.bytes, 2, lastWrite.page_size) # Zeros(lastWrite.page_size)

\* the positions (from 1) of the non-null child references of a node
NonNull(node) == {i \in 1..Len(node.pointers) : node.pointers[i] # 0}

\* count is the number of keys, and an internal node with k keys has its
\* k + 1 child references in pointers[0..k] and no other
Bookkept(node) ==
    /\ node.count = Len(node.keys)
    /\ node.is_leaf \/ NonNull(node) = 1..(Len(node.keys) + 1)

\* C29: node bookkeeping.  In every tree reached by inserts each node's count
\* is the number of its keys, and each internal node with k keys has exactly
\* k + 1 non-null child references, in pointers[0..k]; the two halves of an
\* internal split included.
C29_NodeBookkeeping == \A nd \in TreeNodes : Bookkept(nodes[nd[1]])

\* the smallest index i (from 0) with keys[i] >= t, and the number of keys
\* if there is none
LowerBound(ks, t) ==
    IF \E i \in 1..Len(ks) : ks[i].key >= t
    THEN (CHOOSE i \in 1..Len(ks) :
             /\ ks[i].key >= t
             /\ \A j \in 1..(i - 1) : ks[j].key < t) - 1
    ELSE Len(ks)

\* _binary_search on node keeps its contract for the target t
KeepsContract(node, t) ==
    \E b \in {binary_search(node, t)} :
        /\ ~b.fault
        /\ b.pos = LowerBound(node.keys, t)
        /\ (\E i \in 1..Len(node.keys) : node.keys[i].key = t)
               => node.keys[b.pos + 1].key = t

\* C30: binary search contract.  For every node of the tree whose keys are
\* ascending and every target t, _binary_search returns the smallest index i
\* with keys[i] >= t, the number of keys if there is none, and an index of t
\* when t is among the keys.
C30_BinarySearchContract ==
    \A nd \in TreeNodes : \A t \in AllKeys :
        StrictlyAscending(nodes[nd[1]].keys) => KeepsContract(nodes[nd[1]], t)

\* the same for the nodes whose count is the number of their keys
C30_ContractOfCountedNodes ==
    \A nd \in TreeNodes : \A t \in AllKeys :
        (/\ StrictlyAscending(nodes[nd[1]].keys)
         /\ nodes[nd[1]].count = Len(nodes[nd[1]].keys))
            => KeepsContract(nodes[nd[1]], t)

\* ------------------------------------------------------------------------
\* Claims about the leaf chain and the split steps
\* ------------------------------------------------------------------------

\* the leaf reached from cur along pointers[0], 0 if a child is missing
RECURSIVE Leftmost(_, _)
Leftmost(ns, cur) ==
    IF cur = 0 THEN 0
    ELSE IF ns[cur].is_leaf THEN cur
    ELSE Leftmost(ns, ns[cur].pointers[1])

\* the nodes from cur along next, at most fuel of them
RECURSIVE Chain(_, _, _)
Chain(ns, cur, fuel) ==
    IF cur = 0 \/ fuel = 0 THEN <<>>
    ELSE <<cur>> \o Chain(ns, ns[cur].next, fuel - 1)

\* the keys of the nodes of a chain, in the order of the chain
RECURSIVE ChainKeys(_, _)
ChainKeys(ns, ch) ==
    IF ch = <<>> THEN <<>> ELSE ns[Head(ch)].keys \o ChainKeys(ns, Tail(ch))

LeafChain == Chain(nodes, Leftmost(nodes, root), Len(nodes) + 1)

\* the chain visits every leaf of the tree once and no other node, which
\* makes its last leaf one with no next, and its keys ascend strictly
ChainInOrder ==
    /\ {LeafChain[i] : i \in 1..Len(LeafChain)} = {nd[1] : nd \in TreeLeaves}
    /\ Len(LeafChain) = Cardinality({nd[1] : nd \in TreeLeaves})
    /\ StrictlyAscending(ChainKeys(nodes, LeafChain))

\* C31: leaf chain.  After any sequence of inserts, following next from the
\* leftmost leaf visits every leaf exactly once, ends at a leaf with no next,
\* and yields the keys of the tree in strictly ascending order.
C31_LeafChain == ~fault => ChainInOrder

\* C31 for inserts with pairwise distinct keys
C31_LeafChainDistinct == DistinctInserts => ChainInOrder

\* the leaf that the descent of insert for key reaches from cur, 0 where the
\* descent panics or finds no child
RECURSIVE FindLeaf(_, _, _)
FindLeaf(ns, cur, key) ==
    IF cur = 0 THEN 0
    ELSE IF ns[cur].is_leaf THEN cur
    ELSE The({ IF b.fault \/ b.pos >= Len(ns[cur].pointers) THEN 0
               ELSE FindLeaf(ns, ns[cur].pointers[b.pos + 1], key)
               : b \in {binary_search(ns[cur], key)} })

\* the entries ks, ascending, with the entry v of a new key in its place
Merged(ks, v) ==
    LET p == Cardinality({i \in 1..Len(ks) : ks[i].key < v.key})
    IN  SubSeq(ks, 1, p) \o <<v>> \o SubSeq(ks, p + 1, Len(ks))

\* the entries (key with its locator) of the leaves of the tree
LeafEntries == {nodes[pl[1]].keys[pl[2]] : pl \in LeafPlaces}

\* some node holds promoted as its i-th key between the children l and r
LinkedBy(ns, promoted, l, r) ==
    \E p \in 1..Len(ns) : \E i \in 1..Len(ns[p].keys) :
        /\ ~ns[p].is_leaf
        /\ ns[p].keys[i].key = promoted.key
        /\ i + 1 <= Len(ns[p].pointers)
        /\ ns[p].pointers[i] = l
        /\ ns[p].pointers[i + 1] = r

\* the insert of key k goes to a leaf that holds MAX_KEYS keys
SplitsLeaf(k) ==
    /\ root # 0
    /\ FindLeaf(nodes, root, k) # 0
    /\ Len(nodes[FindLeaf(nodes, root, k)].keys) = MAX_KEYS
    /\ SplitInsert(k)
    /\ ~fault'

\* what the split of the leaf l, which the entry v went into, leaves: the
\* new leaf is the first node made by the call
LeafSplitDone(l, v) ==
    LET all == Merged(nodes[l].keys, v)
        mid == 2
        r == Len(nodes) + 1
    IN  /\ Len(all) = 4
        /\ Len(nodes') >= r
        /\ nodes'[r].is_leaf
        /\ nodes'[l].keys = SubSeq(all, 1, mid)
        /\ nodes'[r].keys = SubSeq(all, mid + 1, 4)
        /\ nodes'[r].next = nodes[l].next
        /\ nodes'[l].next = r
        /\ LinkedBy(nodes', nodes'[r].keys[1], l, r)
        /\ LeafEntries' = LeafEntries \cup {v}
        /\ LeafEntryCount' = LeafEntryCount + 1

\* C32: leaf split step.  An insert that makes a leaf hold 4 keys leaves
\* keys[0..2] in the leaf and keys[2..4], locators included, in a new right
\* leaf, which gets the old next; the old leaf's next becomes the right leaf;
\* the promoted key is the first key of the right leaf and stays there; no
\* entry is lost or duplicated.
C32_LeafSplit ==
    [][\A k \in SplitKeys :
          SplitsLeaf(k) => LeafSplitDone(FindLeaf(nodes, root, k), Key(k, <<0, k>>))]_vars

\* a leaf that had a next leaf has been split: its right half is followed by
\* the leaf that followed it
C32_Witness ==
    \E l \in 1..Len(nodes) :
        /\ <<l, 1>> \in TreeLeaves
        /\ nodes[l].next > l
        /\ nodes[nodes[l].next].next # 0
        /\ nodes[nodes[l].next].next < nodes[l].next

\* the internal nodes of an arena that hold MAX_KEYS + 1 keys.  split_internal
\* makes both halves as new nodes, so the node that overflowed stays in the
\* arena as it was when it was split.
Overflowed(ns) == {o \in 1..Len(ns) : ~ns[o].is_leaf /\ Len(ns[o].keys) = MAX_KEYS + 1}

\* l and r are the halves of the node o of 4 keys and 5 children, with
\* keys[2] of o in neither
HalvesOf(ns, o, l, r) ==
    /\ ~ns[l].is_leaf
    /\ ~ns[r].is_leaf
    /\ ns[l].keys = SubSeq(ns[o].keys, 1, 2)
    /\ ns[r].keys = SubSeq(ns[o].keys, 4, 4)
    /\ ns[l].pointers = SubSeq(ns[o].pointers, 1, 3) \o <<0>>
    /\ ns[r].pointers = SubSeq(ns[o].pointers, 4, 5) \o <<0, 0>>
    /\ \A i \in 1..Len(ns[l].keys) : ns[l].keys[i].key # ns[o].keys[3].key
    /\ \A i \in 1..Len(ns[r].keys) : ns[r].keys[i].key # ns[o].keys[3].key
    /\ \A c \in Children(ns[o]) : ~(c \in Children(ns[l]) <=> c \in Children(ns[r]))

\* the root is a node with the one key promoted over the children l and r
NewRootOver(ns, rt, promoted, l, r) ==
    /\ rt # 0
    /\ ~ns[rt].is_leaf
    /\ Len(ns[rt].keys) = 1
    /\ ns[rt].keys[1].key = promoted.key
    /\ ns[rt].pointers = <<l, r, 0, 0>>

\* the node o overflowed with 4 keys and 5 children in this step
SplitsInternal(o) ==
    /\ ~fault'
    /\ o \in Overflowed(nodes') \ Overflowed(nodes)
    /\ Cardinality(Children(nodes'[o])) = MAX_KEYS + 2

\* the halves of o are two nodes made in this step, and they are linked on
\* the two sides of keys[2] of o by the parent, or by a new root where o was
\* the root
InternalSplitDone(o) ==
    \E l \in (Len(nodes) + 1)..(Len(nodes') - 1) :
        /\ HalvesOf(nodes', o, l, l + 1)
        /\ IF root = o
           THEN NewRootOver(nodes', root', nodes'[o].keys[3], l, l + 1)
           ELSE LinkedBy(nodes', nodes'[o].keys[3], l, l + 1)

C34_LocatorAssignment ==
    \A j \in Keys : \A k2 \in Keys :
        (j # k2 /\ last[j] # NoLoc /\ last[k2] # NoLoc) => last[j] # last[k2]

\* the number of whole 16-byte records after the count of an index file
IndexRecordCount(f) == (Len(f.bytes) - 4) \div 16

\* record i (from 1) of an index file
IndexRecord(f, i) == from_bytes(SubSeq(f.bytes, 4 + 16 * (i - 1) + 1, 4 + 16 * i))

\* the records of the file that are written for the key k
RecordsOf(f, k) == {i \in 1..IndexRecordCount(f) : IndexRecord(f, i).key = k}

\* C35: checkpoint collection range.  save writes exactly one record (key,
\* page_id, slot) for every key in [-1000, 10000) that search finds in the
\* tree, key 0 included, no other record, and a leading count equal to the
\* number of records written.
C35_CollectionRange ==
    phase = "saved" =>
        /\ Len(idxFile.bytes) >= 4
        /\ Len(idxFile.bytes) = 4 + 16 * IndexRecordCount(idxFile)
        /\ FromLE32(SubSeq(idxFile.bytes, 1, 4)) = IndexRecordCount(idxFile)
        /\ \A k \in AllKeys :
              IF saved[k].hit
              THEN /\ Cardinality(RecordsOf(idxFile, k)) = 1
                   /\ \A i \in RecordsOf(idxFile, k) :
                         <<IndexRecord(idxFile, i).page_id, IndexRecord(idxFile, i).offset>>
                             = saved[k].loc
              ELSE RecordsOf(idxFile, k) = {}
        /\ \A i \in 1..IndexRecordCount(idxFile) : IndexRecord(idxFile, i).key \in AllKeys

\* C35 but for the key 0
C35_CollectionRangeButZero ==
    phase = "saved" =>
        /\ Len(idxFile.bytes) = 4 + 16 * IndexRecordCount(idxFile)
        /\ FromLE32(SubSeq(idxFile.bytes, 1, 4)) = IndexRecordCount(idxFile)
        /\ \A k \in AllKeys \ {0} :
              IF saved[k].hit
              THEN Cardinality(RecordsOf(idxFile, k)) = 1
              ELSE RecordsOf(idxFile, k) = {}

\* ------------------------------------------------------------------------
\* Claims about the tree manager
\* ------------------------------------------------------------------------

\* C36: concurrent index calls are serialised.  For every interleaving of
\* the calls of two threads, the trees of the manager and the result of each
\* call are those of the calls run one after another in some order, here the
\* order in which they took the mutex, and no call runs on the manager
\* while a writing call of another thread is in it.
C36_CallsSerialised ==
    /\ ~serial.torn
    /\ mgr.holder = 0 => mgr.table_trees = serial.table_trees
    /\ \A t \in Threads :
          (calls[t].pc = "idle" /\ calls[t].op # "none" /\ ~fault)
              => calls[t].res = calls[t].expect

\* both threads have inserted into the same table, with different keys, and
\* the tree of the table holds both keys
C36_Witness ==
    /\ \A t \in Threads :
          calls[t].pc = "idle" /\ calls[t].op = "insert" /\ calls[t].res.err = "Ok"
    /\ calls[1].table_id = calls[2].table_id
    /\ calls[1].key # calls[2].key
    /\ \A t \in Threads :
          TableBTree_search(mgr.table_trees[calls[t].table_id], calls[t].key).hit

\* the call of thread t is an insert or a search on a registered table with
\* a key of another kind than the table's
KindMismatch(t) ==
    /\ calls[t].op # "register"
    /\ mgr.table_trees[calls[t].table_id].registered
    /\ mgr.table_trees[calls[t].table_id].kind # calls[t].key.kind

\* the call of thread t is an insert or a search on an unregistered table id
Unregistered(t) ==
    /\ calls[t].op # "register"
    /\ ~mgr.table_trees[calls[t].table_id].registered

\* C38: trees are monomorphic in key kind.  An insert with a key of another
\* kind than the table was registered with returns an error and leaves every
\* tree unchanged, a search with such a key is a miss, and an insert or a
\* search on an unregistered table id returns a table-not-found error.
C38_Monomorphic ==
    [][\A t \in Threads :
          ManagerReturn(t) =>
              /\ Unregistered(t) =>
                    /\ calls'[t].res.err = "Table not found"
                    /\ mgr'.table_trees = mgr.table_trees
              /\ (KindMismatch(t) /\ calls[t].op = "insert") =>
                    /\ calls'[t].res.err \notin {"Ok", "Table not found"}
                    /\ mgr'.table_trees = mgr.table_trees
              /\ (KindMismatch(t) /\ calls[t].op = "search") =>
                    /\ calls'[t].res.err = "Ok"
                    /\ ~calls'[t].res.hit
                    /\ mgr'.table_trees = mgr.table_trees]_vars

\* an insert with a key of the wrong kind has been refused by a table that
\* holds a key, while the other table id is not registered
C38_Witness ==
    \E t \in Threads :
        /\ calls[t].pc = "idle"
        /\ calls[t].op = "insert"
        /\ calls[t].res.err = "Key type mismatch with B+Tree type"
        /\ mgr.table_trees[calls[t].table_id].root # 0
        /\ \E id \in ManagerTableIds : ~mgr.table_trees[id].registered


\* the map of the handler holds both reserved names under their ids
ReservedMapped ==
    /\ TableIdVsRange \in DOMAIN meta_config.table_id
    /\ meta_config.table_id[TableIdVsRange] = 1
    /\ tableVsColumn \in DOMAIN meta_config.table_id
    /\ meta_config.table_id[tableVsColumn] = 2

C40_AddTableAtomic ==
    [][(cres'.err = "Failed to add table to meta" /\ cres' # cres)
           => meta_config' = meta_config]_vars


\* the page that select reads for the locator loc: [fault, raw]
SelectedPage(loc) == read_from_file(datFile, catalog, "users", loc.page_id, PAGE_SIZE)

\* the row count that data_as_str reads from the page raw
RowCountRead(raw) == ReadI32(raw.data, raw.header_size)

\* the locator loc is of a page of the data file and of a slot below the
\* row count that select reads from that page
ValidLocator(loc) ==
    /\ datFile.exists
    /\ (loc.page_id + 1) * PAGE_SIZE <= Len(datFile.bytes)
    /\ ~SelectedPage(loc).fault
    /\ loc.offset < RowCountRead(SelectedPage(loc).raw)

\* C39: locator validity.  In every state of the facade, the locator
\* (page_id, slot) that the index of the table holds for a key is of a page
\* already written to the data file of the table, and its slot is below the
\* row count that select reads from that page.
C39_LocatorValidity ==
    (~fault /\ "users" \in table_indexes) =>
        \A k \in Keys :
            search(nodes, root, k).hit => ValidLocator(search(nodes, root, k).data)

\* the locators of the index are of pages already written to the data file
C39_PageWritten ==
    (~fault /\ "users" \in table_indexes) =>
        \A k \in Keys :
            search(nodes, root, k).hit
                => /\ datFile.exists
                   /\ (search(nodes, root, k).data.page_id + 1) * PAGE_SIZE
                          <= Len(datFile.bytes)

====
